---- MODULE Spec2Model ----
(***************************************************************************)
(* Model of the ipswamp honeypot's reporting pipeline: the classification  *)
(* adapter (attack-pattern-adapter), the throttle cache, the report        *)
(* sender, the offline spool and its replay (services/api-service.js) and  *)
(* the supervisor's heartbeat and sync jobs (index.js).                    *)
(***************************************************************************)
EXTENDS Integers, Sequences, FiniteSets, TLC

----------------------------------------------------------------------------
(* Bounds of the model *)

\* calls of reportAttack in one behaviour
MaxEvents == 3
\* clock advances in one behaviour
MaxTicks == 2
\* report requests of reportAttack awaiting the backend at one time
MaxInFlight == 1
\* invocations of uploadStoredAttacks in one behaviour
MaxReplays == 2
\* process restarts in one behaviour
MaxRestarts == 1
\* heartbeat sends in one behaviour
MaxHeartbeats == 5
\* requests to the web listeners in one behaviour
MaxRequests == 3
\* SSH connections accepted in one behaviour
MaxConnections == 6
\* SSH authentication requests in one behaviour
MaxAuthAttempts == 2
\* sessions of one mail protocol in one behaviour
MaxMailSessions == 1
\* sessions of the MySQL listener in one behaviour
MaxSqlSessions == 2
\* packets the MySQL listener receives in one behaviour
MaxSqlPackets == 4
\* entries of an evidence array
MaxEvidence == 5
\* the frequency hint of a record
MaxFrequency == 11
\* SMTP command lines in one behaviour
MaxSmtpCommands == 12
\* POP3 pass commands in one behaviour
MaxPop3Attempts == 4

----------------------------------------------------------------------------
(* Program constants *)

IP_CACHE_TTL == 3600000
MAX_REPORTS_PER_IP_PER_HOUR == 5
REPORT_TYPES_THROTTLE == TRUE
\* config.heartbeatRetryCount, the default of HEARTBEAT_RETRY_COUNT
HEARTBEAT_RETRY_COUNT == 3
\* the failure count at which performHeartbeat runs the ping probe
PING_PROBE_FAILURES == 3

\* source addresses of the attackers
IPs == {"1.2.3.4", "5.6.7.8"}

\* internal kinds the listeners hand to reportAttack in this model:
\* http-honeypot's detectAttack result and ftp-honeypot's bruteforce label
AttackKinds == {"SQL_INJECTION", "FTP_BRUTEFORCE"}

\* the amount of time that passes in one clock step: a whole TTL, so that an
\* entry is at the edge of its window after one step and expired after two
ClockSteps == {IP_CACHE_TTL}

\* the ways the awaited POST of a report fails: error.response.status 403,
\* another non-2xx status, axios' timeout, no connection
SendErrors == {"403", "500", "ECONNABORTED", "ECONNREFUSED"}

\* the failure the specifications of the cache and of the spool let a request
\* meet: what they are about does not depend on the way a request fails
OneSendError == {"ECONNREFUSED"}

\* values of parseInt(process.env.MAX_REPORTS_PER_IP); 0 stands for every
\* falsy result (unset, not a number, "0"), which selects the default
EnvMaxReports == {0, 1, 2}

----------------------------------------------------------------------------
(* JavaScript values of the evidence field *)

\* a value: its type, the text of a string (the digits of a number, the JSON
\* text of an object) and the elements of an array
Undefined == [t |-> "undefined", text |-> "", items |-> <<>>]
Str(s) == [t |-> "string", text |-> s, items |-> <<>>]
Num(s) == [t |-> "number", text |-> s, items |-> <<>>]
Obj(s) == [t |-> "object", text |-> s, items |-> <<>>]
Arr(items) == [t |-> "array", text |-> "", items |-> items]

\* texts of the model
RequestInfoText == "{\"path\":\"/search\",\"method\":\"get\"}"
UnionSelectText == "{\"query\":\"q=' union select 1--\"}"
ScriptText == "<script>alert(document.cookie)</script>"
TraversalText == "../../etc/passwd"
StringArrayText == "[\"user root\",\"pass toor\"]"
NumberArrayText == "[1,2]"

\* JSON.parse on the texts of the model that are JSON
JSON_parse ==
  (RequestInfoText :> Obj(RequestInfoText) @@
   UnionSelectText :> Obj(UnionSelectText) @@
   StringArrayText :> Arr(<<Str("user root"), Str("pass toor")>>) @@
   NumberArrayText :> Arr(<<Num("1"), Num("2")>>))

\* JSON.stringify of an object or a number
JSON_stringify(v) == Str(v.text)

\* the value as a condition
truthy(v) ==
  CASE v.t = "undefined" -> FALSE
    [] v.t = "string" -> v.text # ""
    [] v.t = "number" -> v.text # "0"
    [] OTHER -> TRUE

isArray(v) == v.t = "array"

\* the patterns mapAttackType looks for that a lowercased text includes
includesOf ==
  (UnionSelectText :> {"union select"} @@
   ScriptText :> {"script", "alert", "cookie"} @@
   TraversalText :> {"../"})

\* evidence.join(" ").toLowerCase() or String(evidence).toLowerCase(), as the
\* set of patterns the result includes; String(object) is "[object Object]"
RECURSIVE includes(_)
includes(v) ==
  IF v.t = "array"
    THEN UNION {includes(v.items[j]) : j \in 1..Len(v.items)}
  ELSE IF v.t = "object" THEN {}
  ELSE IF v.text \in DOMAIN includesOf THEN includesOf[v.text] ELSE {}

\* the evidence the HTTP listener passes: JSON.stringify(requestInfo)
ListenerEvidence == Str(RequestInfoText)

\* evidence values reportAttack can be called with
EvidenceValues ==
  {Undefined, Str(""), ListenerEvidence, Str(UnionSelectText),
   Str(ScriptText), Str(TraversalText), Str(StringArrayText),
   Str(NumberArrayText), Arr(<<>>), Arr(<<Str(RequestInfoText)>>),
   Arr(<<Str(TraversalText), Str(ScriptText)>>),
   Arr(<<Obj(RequestInfoText)>>), Obj(UnionSelectText)}

----------------------------------------------------------------------------
(* Classification adapter *)

\* String.prototype.toLowerCase on the strings of the model that have upper
\* case letters: the listeners' labels and the keys of ATTACK_PATTERNS
LowerCaseOf ==
  ("SQL_INJECTION" :> "sql_injection" @@
   "COMMAND_INJECTION" :> "command_injection" @@
   "XSS" :> "xss" @@
   "PATH_TRAVERSAL" :> "path_traversal" @@
   "SUSPICIOUS_ENDPOINT" :> "suspicious_endpoint" @@
   "SUSPICIOUS_USER_AGENT" :> "suspicious_user_agent" @@
   "FTP_BRUTEFORCE" :> "ftp_bruteforce" @@
   "FTP_LOGIN_ATTEMPT" :> "ftp_login_attempt" @@
   "FTP_SUSPICIOUS_COMMAND" :> "ftp_suspicious_command" @@
   "LOGIN_BRUTEFORCE" :> "login_bruteforce" @@
   "CREDENTIAL_HARVESTING" :> "credential_harvesting" @@
   "PORT_SCAN" :> "port_scan" @@
   "SSH_BRUTEFORCE" :> "ssh_bruteforce" @@
   "SSH_BRUTEFORCE_SCAN" :> "ssh_bruteforce_scan" @@
   "SSH_COMMAND" :> "ssh_command" @@
   "SSH_SHELL_COMMAND" :> "ssh_shell_command" @@
   "DIRECTORY_LISTING_ATTEMPT" :> "directory_listing_attempt" @@
   "EXCESSIVE_404" :> "excessive_404" @@
   "SUSPICIOUS_QUERY_STRING" :> "suspicious_query_string" @@
   "FAKE_CRAWLER" :> "fake_crawler" @@
   "RATE_LIMIT_BREACH" :> "rate_limit_breach" @@
   "API_ABUSE" :> "api_abuse" @@
   "COMMENT_SPAM" :> "comment_spam" @@
   "HONEYPOT" :> "honeypot" @@
   "CREDENTIAL_STUFFING" :> "credential_stuffing" @@
   "XSS_ATTEMPT" :> "xss_attempt" @@
   "CSRF_ATTEMPT" :> "csrf_attempt" @@
   "AUTHENTICATION_BREACH" :> "authentication_breach" @@
   "SQLI_ATTEMPT" :> "sqli_attempt" @@
   "HTTP_FLOOD" :> "http_flood" @@
   "MAIL_SPAM" :> "mail_spam" @@
   "HTTP_INJECTION" :> "http_injection" @@
   "DATA_EXFILTRATION" :> "data_exfiltration" @@
   "BOTNET_ACTIVITY" :> "botnet_activity" @@
   "RANSOMWARE_DISTRIBUTION" :> "ransomware_distribution" @@
   "DDOS_ATTACK" :> "ddos_attack" @@
   "TARGETED_ATTACK" :> "targeted_attack" @@
   "MANUAL" :> "manual" @@
   "TOR_EXIT_NODE" :> "tor_exit_node" @@
   "PROXY_ABUSE" :> "proxy_abuse" @@
   "VPN_ABUSE" :> "vpn_abuse")

toLowerCase(s) == IF s \in DOMAIN LowerCaseOf THEN LowerCaseOf[s] ELSE s

ATTACK_TYPE_MAPPING ==
  [k \in {"sql_injection", "sql_injection_attempt", "mysql_sqli_attempt"}
      |-> "SQLI_ATTEMPT"] @@
  [k \in {"xss_attack", "xss"} |-> "XSS_ATTEMPT"] @@
  [k \in {"path_traversal", "directory_traversal"} |-> "PATH_TRAVERSAL"] @@
  [k \in {"command_injection", "os_command_injection"}
      |-> "COMMAND_INJECTION"] @@
  [k \in {"directory_listing", "directory_scan"}
      |-> "DIRECTORY_LISTING_ATTEMPT"] @@
  [k \in {"admin_bruteforce", "login_attempt", "management_access",
          "admin_portal_access", "ftp_bruteforce", "ftp_invalid_user",
          "ftp_auth_failure", "smtp_auth_attempt", "imap_bruteforce",
          "imap_invalid_user", "pop3_bruteforce", "pop3_invalid_user",
          "mail_auth_failure", "mysql_bruteforce", "mysql_invalid_user",
          "mysql_auth_failure"} |-> "AUTHENTICATION_BREACH"] @@
  [k \in {"suspicious_request", "strange_query", "email_harvesting"}
      |-> "SUSPICIOUS_QUERY_STRING"] @@
  [k \in {"bot_request", "fake_bot"} |-> "FAKE_CRAWLER"] @@
  [k \in {"spam_attempt", "form_spam"} |-> "COMMENT_SPAM"] @@
  [k \in {"rate_limit", "too_many_requests"} |-> "RATE_LIMIT_BREACH"] @@
  [k \in {"api_abuse"} |-> "API_ABUSE"] @@
  [k \in {"ssh_bruteforce", "ssh_invalid_user", "ssh_auth_failure"}
      |-> "SSH_BRUTEFORCE"] @@
  [k \in {"smtp_spam_attempt", "smtp_relay_attempt", "smtp_bulk_attempt"}
      |-> "MAIL_SPAM"] @@
  [k \in {"smtp_scan", "mysql_scan", "port_scan", "port_probe", "portscan"}
      |-> "PORT_SCAN"] @@
  [k \in {"mail_overflow_attempt"} |-> "BOTNET_ACTIVITY"] @@
  [k \in {"mysql_overflow_attempt"} |-> "HTTP_INJECTION"] @@
  [k \in {"honeypot_hit", "honeypot_access", "suspicious_activity", "default"}
      |-> "HONEYPOT"] @@
  [k \in {"credential_stuffing", "password_spray"}
      |-> "CREDENTIAL_STUFFING"] @@
  [k \in {"dos_attempt", "flood_attack", "http_flood"} |-> "HTTP_FLOOD"] @@
  [k \in {"generic_attack"} |-> "MANUAL"]

\* the taxonomy: base score and category of each canonical kind
ATTACK_PATTERNS ==
  ("SUSPICIOUS_USER_AGENT" :> [baseScore |-> 2, category |-> "reconnaissance"] @@
   "DIRECTORY_LISTING_ATTEMPT" :> [baseScore |-> 3, category |-> "reconnaissance"] @@
   "EXCESSIVE_404" :> [baseScore |-> 3, category |-> "reconnaissance"] @@
   "SUSPICIOUS_QUERY_STRING" :> [baseScore |-> 4, category |-> "reconnaissance"] @@
   "FAKE_CRAWLER" :> [baseScore |-> 4, category |-> "reconnaissance"] @@
   "RATE_LIMIT_BREACH" :> [baseScore |-> 6, category |-> "abuse"] @@
   "API_ABUSE" :> [baseScore |-> 7, category |-> "abuse"] @@
   "PORT_SCAN" :> [baseScore |-> 8, category |-> "reconnaissance"] @@
   "COMMENT_SPAM" :> [baseScore |-> 8, category |-> "abuse"] @@
   "HONEYPOT" :> [baseScore |-> 9, category |-> "general"] @@
   "CREDENTIAL_STUFFING" :> [baseScore |-> 11, category |-> "authentication"] @@
   "XSS_ATTEMPT" :> [baseScore |-> 12, category |-> "injection"] @@
   "CSRF_ATTEMPT" :> [baseScore |-> 12, category |-> "authentication"] @@
   "PATH_TRAVERSAL" :> [baseScore |-> 13, category |-> "injection"] @@
   "AUTHENTICATION_BREACH" :> [baseScore |-> 15, category |-> "authentication"] @@
   "SQLI_ATTEMPT" :> [baseScore |-> 16, category |-> "injection"] @@
   "SSH_BRUTEFORCE" :> [baseScore |-> 18, category |-> "authentication"] @@
   "HTTP_FLOOD" :> [baseScore |-> 18, category |-> "dos"] @@
   "MAIL_SPAM" :> [baseScore |-> 19, category |-> "abuse"] @@
   "COMMAND_INJECTION" :> [baseScore |-> 20, category |-> "injection"] @@
   "HTTP_INJECTION" :> [baseScore |-> 22, category |-> "injection"] @@
   "DATA_EXFILTRATION" :> [baseScore |-> 25, category |-> "intrusion"] @@
   "BOTNET_ACTIVITY" :> [baseScore |-> 28, category |-> "malware"] @@
   "RANSOMWARE_DISTRIBUTION" :> [baseScore |-> 35, category |-> "malware"] @@
   "DDOS_ATTACK" :> [baseScore |-> 40, category |-> "dos"] @@
   "TARGETED_ATTACK" :> [baseScore |-> 45, category |-> "intrusion"] @@
   "MANUAL" :> [baseScore |-> 15, category |-> "general"] @@
   "TOR_EXIT_NODE" :> [baseScore |-> 10, category |-> "anonymity"] @@
   "PROXY_ABUSE" :> [baseScore |-> 8, category |-> "anonymity"] @@
   "VPN_ABUSE" :> [baseScore |-> 7, category |-> "anonymity"])

\* mutation of mapAttackType: a label the table lacks is passed through
mapAttackType_NoDefault(internalType, evidence) ==
  LET lowerType == IF internalType = "" THEN "default"
                   ELSE toLowerCase(internalType) IN
  IF lowerType \in DOMAIN ATTACK_TYPE_MAPPING
    THEN ATTACK_TYPE_MAPPING[lowerType]
    ELSE internalType

\* "" stands for an absent attack_type: (internalType || "default")
mapAttackType(internalType, evidence) ==
  LET lowerType == IF internalType = "" THEN "default"
                   ELSE toLowerCase(internalType)
      refine == lowerType = "suspicious_request" /\ truthy(evidence)
      found == includes(evidence) IN
  IF refine /\ ("union select" \in found \/ "information_schema" \in found)
    THEN "SQLI_ATTEMPT"
  ELSE IF refine /\ "script" \in found
                 /\ ("alert" \in found \/ "cookie" \in found)
    THEN "XSS_ATTEMPT"
  ELSE IF refine /\ ("../" \in found \/ "..%2f" \in found)
    THEN "PATH_TRAVERSAL"
  ELSE IF lowerType \in DOMAIN ATTACK_TYPE_MAPPING
    THEN ATTACK_TYPE_MAPPING[lowerType]
    ELSE ATTACK_TYPE_MAPPING["default"]

\* the record reportAttack works on: the fields the pipeline reads
\* ({...attackData, attack_type, category, metadata})
enhanceAttackData(attackData) ==
  LET standardizedType ==
        mapAttackType(attackData.attack_type, attackData.evidence)
      pattern == IF standardizedType \in DOMAIN ATTACK_PATTERNS
                   THEN ATTACK_PATTERNS[standardizedType]
                   ELSE ATTACK_PATTERNS["HONEYPOT"]
  IN [attack_type |-> standardizedType,
      category |-> pattern.category,
      metadata |-> [original_type |-> attackData.attack_type,
                    baseScore |-> pattern.baseScore]] @@ attackData

\* base severity of the canonical kinds that have one of their own
severityMap ==
  ("SQLI_ATTEMPT" :> 4 @@ "XSS_ATTEMPT" :> 3 @@ "PATH_TRAVERSAL" :> 3 @@
   "COMMAND_INJECTION" :> 5 @@ "SSH_BRUTEFORCE" :> 4 @@
   "AUTHENTICATION_BREACH" :> 3 @@ "HTTP_FLOOD" :> 4 @@ "DDOS_ATTACK" :> 5 @@
   "PORT_SCAN" :> 2 @@ "HONEYPOT" :> 2 @@ "default" :> 2)

\* severityMap[standardizedType] || severityMap["default"]
baseSeverity(standardizedType) ==
  IF standardizedType \in DOMAIN severityMap
    THEN severityMap[standardizedType]
    ELSE severityMap["default"]

\* Math.min
Math_min(a, b) == IF a < b THEN a ELSE b

\* attackData.evidence.length > 3 of an array
muchEvidence(attackData) ==
  /\ truthy(attackData.evidence)
  /\ isArray(attackData.evidence)
  /\ Len(attackData.evidence.items) > 3

\* attackData.frequency > 10; 0 also stands for an absent hint
frequent(attackData) ==
  attackData.frequency # 0 /\ attackData.frequency > 10

\* mutation of calculateSeverity: one adjustment for both conditions
calculateSeverity_OneBump(standardizedType, attackData) ==
  IF muchEvidence(attackData) \/ frequent(attackData)
    THEN Math_min(5, baseSeverity(standardizedType) + 1)
    ELSE baseSeverity(standardizedType)

\* the base severity, adjusted for the evidence and then for the frequency
calculateSeverity(standardizedType, attackData) ==
  LET severity == baseSeverity(standardizedType)
      adjusted == IF muchEvidence(attackData)
                    THEN Math_min(5, severity + 1) ELSE severity
  IN IF frequent(attackData) THEN Math_min(5, adjusted + 1) ELSE adjusted

\* canonical kinds the listeners' kinds of this model classify to
CanonicalKinds ==
  {mapAttackType(k, ListenerEvidence) : k \in AttackKinds}

\* the labels the listeners pass as attack_type
ListenerKinds ==
  {"SQL_INJECTION", "COMMAND_INJECTION", "XSS", "PATH_TRAVERSAL",
   "SUSPICIOUS_ENDPOINT", "SUSPICIOUS_USER_AGENT", "FTP_BRUTEFORCE",
   "FTP_LOGIN_ATTEMPT", "FTP_SUSPICIOUS_COMMAND", "LOGIN_BRUTEFORCE",
   "CREDENTIAL_HARVESTING", "PORT_SCAN", "SSH_BRUTEFORCE",
   "SSH_BRUTEFORCE_SCAN", "SSH_COMMAND", "SSH_SHELL_COMMAND",
   "admin_portal_access", "suspicious_request", "management_access",
   "imap_bruteforce", "email_harvesting", "admin_login_bruteforce",
   "smtp_spam_attempt", "smtp_scan", "smtp_relay_attempt",
   "smtp_auth_attempt", "pop3_scan", "pop3_bruteforce", "imap_scan",
   "mysql_sqli_attempt", "mysql_scan", "mysql_bruteforce"}

\* attack_type values enhanceAttackData is given: the listeners' labels, the
\* keys of the mapping, the canonical kinds of stored records and none ("")
InternalKinds ==
  ListenerKinds \cup DOMAIN ATTACK_TYPE_MAPPING \cup DOMAIN ATTACK_PATTERNS
    \cup {""}

\* a record as a listener hands it to reportAttack, not yet classified
AdapterInputs ==
  {[pc |-> "input",
    attackData |-> [ip_address |-> "1.2.3.4", attack_type |-> k,
                    evidence |-> e],
    enhanced |-> <<>>, body |-> <<>>, stored |-> <<>>, replayBody |-> <<>>] :
     k \in InternalKinds, e \in EvidenceValues}

\* evidence arrays of every length of the model
RECURSIVE evidenceOfLength(_)
evidenceOfLength(n) ==
  IF n = 0 THEN Arr(<<>>)
  ELSE Arr(Append(evidenceOfLength(n - 1).items, Str("user root")))

\* a record as enhanceAttackData is given it, with or without a frequency
\* hint, its severity not yet calculated
SeverityInputs ==
  {[pc |-> "input",
    attackData |-> [ip_address |-> "1.2.3.4", attack_type |-> k,
                    evidence |-> e, frequency |-> f],
    standardizedType |-> "", severity |-> 0] :
     k \in InternalKinds,
     e \in {Undefined, ListenerEvidence}
             \cup {evidenceOfLength(n) : n \in 0..MaxEvidence},
     f \in 0..MaxFrequency}

----------------------------------------------------------------------------
(* State *)

VARIABLES
  config,          \* index.js config and process.env, fixed at start
  now,             \* Date.now()
  ticks,           \* clock advances so far
  reportedIPCache, \* Map ip -> {timestamp, attack_types, reported_count}
  spool,           \* logs/offline_attacks.json, a sequence of entries
  inflight,        \* report requests of reportAttack awaiting the backend
  nEvents,         \* calls of reportAttack so far; the next call's id
  outcome,         \* per event id: how its reportAttack call has ended so far
  thrown,          \* per event id: the error its reportAttack call rejected with
  adapter,         \* one record on its way through the adapter and the sender
  admitted,        \* per ip and kind: events admitted in the entry's window
  delivered,       \* per event id: requests the backend answered with 2xx
  passes,          \* running invocations of uploadStoredAttacks
  nReplays,        \* invocations of uploadStoredAttacks so far
  nRestarts,       \* process restarts so far
  consecutiveReportFailures, \* index.js
  hb,              \* heartbeat scheduler state of index.js
  web,             \* the web listeners: trackers and the last request handled
  ssh,             \* the SSH listener: trackers, sessions and their timers
  mail,            \* the mail listeners: the SMTP and the POP3 session
  mysql,           \* the MySQL listener: its session
  supervisor,      \* index.js: module status, listening sockets, the process
  calls            \* reportAttack calls statement by statement, the thread

\* the state of the protocol listeners
listenerVars == <<web, ssh, mail, mysql, supervisor, calls>>

vars == <<config, now, ticks, reportedIPCache, spool, inflight, nEvents,
          outcome, thrown, adapter, listenerVars, admitted, delivered, passes, nReplays,
          nRestarts, consecutiveReportFailures, hb>>

EventIds == 1..MaxEvents


\* an absent Map: the function with the empty domain
EmptyCache == [ip \in {} |-> 0]

NoAdmissions == [ip \in IPs |-> [k \in CanonicalKinds |-> 0]]

NoPass == [pc |-> "idle", attacks |-> <<>>, i |-> 0, origin |-> "none",
           read |-> <<>>,         \* the file as the pass read it
           remainingAttacks |-> <<>>]

TypeOK ==
  /\ config \in [offlineMode : BOOLEAN, storeThrottledAttacks : BOOLEAN,
                 debugMode : BOOLEAN, uniqueTypesOnly : BOOLEAN,
                 envMaxReports : EnvMaxReports]
  /\ now \in Nat /\ ticks \in 0..MaxTicks
  /\ DOMAIN reportedIPCache \subseteq IPs
  /\ nEvents \in 0..MaxEvents
  /\ \A r \in inflight : r.id \in 1..nEvents
  /\ nReplays \in 0..MaxReplays /\ nRestarts \in 0..MaxRestarts
  /\ consecutiveReportFailures \in Nat
  /\ thrown \in [EventIds -> SendErrors \cup {"none"}]

----------------------------------------------------------------------------
(* Throttle cache *)

\* parseInt(process.env.MAX_REPORTS_PER_IP) || MAX_REPORTS_PER_IP_PER_HOUR
maxReportsPerIp ==
  IF config.envMaxReports # 0 THEN config.envMaxReports
                              ELSE MAX_REPORTS_PER_IP_PER_HOUR

isExpired(cacheInfo, t) == t - cacheInfo.timestamp > IP_CACHE_TTL

\* mutation of shouldThrottleReport: the cap compared with > instead of >=
shouldThrottleReport_OffByOne(cache, ip, attackType, t) ==
  IF ip \notin DOMAIN cache THEN FALSE
  ELSE IF isExpired(cache[ip], t) THEN FALSE
  ELSE IF REPORT_TYPES_THROTTLE /\ attackType \notin cache[ip].attack_types
    THEN FALSE
  ELSE IF config.uniqueTypesOnly /\ attackType \in cache[ip].attack_types
    THEN TRUE
  ELSE cache[ip].reported_count > maxReportsPerIp

\* mutation of shouldThrottleReport: the novelty test comes after the cap
shouldThrottleReport_CapFirst(cache, ip, attackType, t) ==
  IF ip \notin DOMAIN cache THEN FALSE
  ELSE IF isExpired(cache[ip], t) THEN FALSE
  ELSE IF cache[ip].reported_count >= maxReportsPerIp THEN TRUE
  ELSE IF REPORT_TYPES_THROTTLE /\ attackType \notin cache[ip].attack_types
    THEN FALSE
  ELSE config.uniqueTypesOnly /\ attackType \in cache[ip].attack_types

\* mutation of shouldThrottleReport: REPORT_UNIQUE_TYPES_ONLY is not read
shouldThrottleReport_NoUnique(cache, ip, attackType, t) ==
  IF ip \notin DOMAIN cache THEN FALSE
  ELSE IF isExpired(cache[ip], t) THEN FALSE
  ELSE IF REPORT_TYPES_THROTTLE /\ attackType \notin cache[ip].attack_types
    THEN FALSE
  ELSE cache[ip].reported_count >= maxReportsPerIp

\* the answer of shouldThrottleReport(ip, attackType) at time t
shouldThrottleReport(cache, ip, attackType, t) ==
  IF ip \notin DOMAIN cache THEN FALSE
  ELSE IF isExpired(cache[ip], t) THEN FALSE
  ELSE IF REPORT_TYPES_THROTTLE /\ attackType \notin cache[ip].attack_types
    THEN FALSE
  ELSE IF config.uniqueTypesOnly /\ attackType \in cache[ip].attack_types
    THEN TRUE
  ELSE cache[ip].reported_count >= maxReportsPerIp

\* the cache shouldThrottleReport leaves: an expired entry is deleted
cacheAfterThrottleCheck(cache, ip, t) ==
  IF ip \in DOMAIN cache /\ isExpired(cache[ip], t)
    THEN [a \in DOMAIN cache \ {ip} |-> cache[a]]
    ELSE cache

freshEntry(attackType, t) ==
  [timestamp |-> t, attack_types |-> {attackType}, reported_count |-> 1]

\* mutation of updateReportCache: a kind new to the entry restarts the count
updateReportCache_ResetOnNewKind(cache, ip, attackType, t) ==
  IF ip \notin DOMAIN cache
    THEN [a \in DOMAIN cache \cup {ip} |->
            IF a = ip THEN freshEntry(attackType, t) ELSE cache[a]]
  ELSE IF isExpired(cache[ip], t)
    THEN [cache EXCEPT ![ip] = freshEntry(attackType, t)]
  ELSE [cache EXCEPT
          ![ip].attack_types = @ \cup {attackType},
          ![ip].reported_count =
             IF attackType \in cache[ip].attack_types THEN @ + 1 ELSE 1]

updateReportCache(cache, ip, attackType, t) ==
  IF ip \notin DOMAIN cache
    THEN [a \in DOMAIN cache \cup {ip} |->
            IF a = ip THEN freshEntry(attackType, t) ELSE cache[a]]
  ELSE IF isExpired(cache[ip], t)
    THEN [cache EXCEPT ![ip] = freshEntry(attackType, t)]
  ELSE [cache EXCEPT
          ![ip].attack_types = @ \cup {attackType},
          ![ip].reported_count = @ + 1]

cleanupReportCache(cache, t) ==
  [a \in {b \in DOMAIN cache : ~isExpired(cache[b], t)} |-> cache[a]]

----------------------------------------------------------------------------
(* Offline spool *)

\* the entry storeAttackLocally builds; id tags the reportAttack call it
\* comes from, throttled is the flag reportAttack adds to a suppressed event
spoolEntry(id, data, throttled) ==
  [id |-> id, ip_address |-> data.ip_address, attack_type |-> data.attack_type,
   evidence |-> data.evidence, throttled |-> throttled,
   pending_upload |-> TRUE]

\* mutation of storeAttackLocally: the file is overwritten, not appended to
storeAttackLocally_Overwrite(file, entry) == <<entry>>

\* an absent file reads as the empty array
storeAttackLocally(file, entry) == Append(file, entry)

----------------------------------------------------------------------------
(* Report sender *)

\* "Format evidence as array if it's a string": the value put in the body
formatEvidence(evidence) ==
  IF evidence.t = "string"
    THEN IF evidence.text \in DOMAIN JSON_parse
           THEN IF isArray(JSON_parse[evidence.text])
                  THEN JSON_parse[evidence.text]
                  ELSE Arr(<<evidence>>)
           ELSE Arr(<<evidence>>)
  ELSE IF truthy(evidence) /\ ~isArray(evidence)
    THEN Arr(<<JSON_stringify(evidence)>>)
  ELSE evidence

\* the request body of POST /honeypot/report-ip, with the id of its event
requestBody(id, data) ==
  [id |-> id, ip_address |-> data.ip_address, attack_type |-> data.attack_type,
   evidence |-> formatEvidence(data.evidence)]

\* mutation of offlineModeOf: reportAttack ignores config.offlineMode
offlineModeOf_Ignored(cfg) == FALSE

\* the test `if (config.offlineMode)` of reportAttack
offlineModeOf(cfg) == cfg.offlineMode

\* the window's admission counts after one more event from ip
admittedAfter(ip, kind, newWindow, throttle) ==
  LET base == IF newWindow THEN [k \in CanonicalKinds |-> 0] ELSE admitted[ip]
  IN [admitted EXCEPT ![ip] =
        IF throttle THEN base ELSE [base EXCEPT ![kind] = @ + 1]]

\* reportAttack up to its first await: classification, throttle decision,
\* cache update, then suppression, offline storage or the request
ReportAttack(ip, internalKind) ==
  /\ nEvents < MaxEvents
  /\ Cardinality(inflight) < MaxInFlight \/ offlineModeOf(config)
  /\ LET id == nEvents + 1
         enhancedData == enhanceAttackData(
            [ip_address |-> ip, attack_type |-> internalKind,
             evidence |-> ListenerEvidence])
         attack_type == enhancedData.attack_type
         throttle == shouldThrottleReport(reportedIPCache, ip, attack_type, now)
         checked == cacheAfterThrottleCheck(reportedIPCache, ip, now)
     IN /\ nEvents' = id
        /\ reportedIPCache' = updateReportCache(checked, ip, attack_type, now)
        /\ admitted' = admittedAfter(ip, attack_type,
                                     ip \notin DOMAIN checked, throttle)
        /\ IF throttle
             THEN /\ spool' = IF config.storeThrottledAttacks
                                THEN storeAttackLocally(spool,
                                       spoolEntry(id, enhancedData, TRUE))
                                ELSE spool
                  /\ outcome' = [outcome EXCEPT ![id] = "throttled"]
                  /\ UNCHANGED inflight
           ELSE IF offlineModeOf(config)
             THEN /\ spool' = storeAttackLocally(spool,
                                 spoolEntry(id, enhancedData, FALSE))
                  /\ outcome' = [outcome EXCEPT ![id] = "stored_locally"]
                  /\ UNCHANGED inflight
           ELSE /\ inflight' = inflight \cup
                      {[id |-> id, data |-> enhancedData,
                        body |-> requestBody(id, enhancedData)]}
                /\ outcome' = [outcome EXCEPT ![id] = "sending"]
                /\ UNCHANGED spool
  /\ UNCHANGED <<config, now, ticks, thrown, adapter, listenerVars, delivered, passes, nReplays,
                 nRestarts, consecutiveReportFailures, hb>>

\* the backend answers the request with 2xx: reportAttack resolves
ReportAccepted(r) ==
  /\ r \in inflight
  /\ inflight' = inflight \ {r}
  /\ delivered' = [delivered EXCEPT ![r.id] = @ + 1]
  /\ outcome' = [outcome EXCEPT ![r.id] = "ok"]
  /\ UNCHANGED <<config, now, ticks, reportedIPCache, spool, nEvents,
                 thrown, adapter, listenerVars, admitted, passes, nReplays, nRestarts,
                 consecutiveReportFailures, hb>>

\* the .catch of safeReportAttack (index.js), which no listener goes through
safeReportAttackCatch(failures) == failures + 1

\* the .catch of the listeners' own reportAttack calls: a log line
listenerCatch(failures) == failures

\* mutation of reportAttackCatch: a 403 is rethrown without being spooled
reportAttackCatch_Skip403(file, r, error) ==
  [file |-> IF error = "403" THEN file
            ELSE storeAttackLocally(file, spoolEntry(r.id, r.data, FALSE)),
   thrown |-> error]

\* the catch block of reportAttack: log lines (one more for a 403), then
\* storeAttackLocally(enhancedData) and `throw error`
reportAttackCatch(file, r, error) ==
  [file |-> storeAttackLocally(file, spoolEntry(r.id, r.data, FALSE)),
   thrown |-> error]

\* the request fails (non-2xx, timeout, network): the record is spooled and
\* reportAttack rejects into the calling listener's .catch
ReportRejected(r, error) ==
  /\ r \in inflight
  /\ inflight' = inflight \ {r}
  /\ spool' = reportAttackCatch(spool, r, error).file
  /\ thrown' = [thrown EXCEPT ![r.id] = reportAttackCatch(spool, r, error).thrown]
  /\ outcome' = [outcome EXCEPT ![r.id] = "failed"]
  /\ consecutiveReportFailures' = listenerCatch(consecutiveReportFailures)
  /\ UNCHANGED <<config, now, ticks, reportedIPCache, nEvents, adapter, listenerVars,
                 admitted, delivered, passes, nReplays, nRestarts, hb>>

\* time passes
Tick(d) ==
  /\ ticks < MaxTicks
  /\ ticks' = ticks + 1
  /\ now' = now + d
  /\ UNCHANGED <<config, reportedIPCache, spool, inflight, nEvents, outcome,
                 thrown, adapter, listenerVars, admitted, delivered, passes, nReplays, nRestarts,
                 consecutiveReportFailures, hb>>

\* the 10-minute janitor; the admission counts of a removed entry end with it
CleanupReportCache ==
  /\ reportedIPCache' = cleanupReportCache(reportedIPCache, now)
  /\ admitted' = [ip \in IPs |->
                    IF ip \in DOMAIN reportedIPCache' THEN admitted[ip]
                    ELSE [k \in CanonicalKinds |-> 0]]
  /\ UNCHANGED <<config, now, ticks, spool, inflight, nEvents, outcome,
                 thrown, adapter, listenerVars, delivered, passes, nReplays, nRestarts,
                 consecutiveReportFailures, hb>>

----------------------------------------------------------------------------
(* Replay of the spool: uploadStoredAttacks *)

\* attack_type.startsWith("SQLI_") || startsWith("XSS_") || startsWith("PORT_")
\* on the kinds the adapter produces
hasStandardPrefix(attack_type) ==
  attack_type \in {"SQLI_ATTEMPT", "XSS_ATTEMPT", "PORT_SCAN"}

\* the request a replay pass sends for a stored entry
replayRequest(attack) ==
  LET enhancedAttack == IF hasStandardPrefix(attack.attack_type)
                          THEN attack ELSE enhanceAttackData(attack)
  IN requestBody(attack.id, enhancedAttack)

\* index of the first entry after position from that the loop does not skip
\* (`if (!attack.pending_upload) continue`), 0 when the loop ends
nextPending(attacks, from) ==
  LET later == {j \in (from + 1)..Len(attacks) : attacks[j].pending_upload}
  IN IF later = {} THEN 0 ELSE CHOOSE j \in later : \A k \in later : j <= k

\* mutation of pendingOnly: the whole array is written back
pendingOnly_KeepAll(attacks) == attacks

\* `attacks.filter((a) => a.pending_upload)`
pendingOnly(attacks) == SelectSeq(attacks, LAMBDA a : a.pending_upload)

uploadedCount(attacks) ==
  Cardinality({j \in 1..Len(attacks) : ~attacks[j].pending_upload})

\* an invocation up to its first await: the file is read and the first
\* request goes out; with no file or an empty array it returns at once
StartPass(origin) ==
  /\ nReplays < MaxReplays
  /\ nReplays' = nReplays + 1
  /\ LET p == nReplays + 1
         first == nextPending(spool, 0)
     IN IF spool = <<>>
          THEN UNCHANGED <<passes, spool>>
        ELSE IF first = 0
          THEN /\ spool' = pendingOnly(spool)
               /\ UNCHANGED passes
        ELSE /\ passes' = [passes EXCEPT ![p] =
                   [pc |-> "running", attacks |-> spool, i |-> first,
                    origin |-> origin, read |-> spool,
                    remainingAttacks |-> <<>>]]
             /\ UNCHANGED spool
  /\ UNCHANGED <<config, now, ticks, reportedIPCache, inflight, nEvents,
                 outcome, thrown, adapter, listenerVars, admitted, delivered, nRestarts,
                 consecutiveReportFailures, hb>>

\* uploadStoredAttacks called through the module's export, as the handler of
\* POST /upload-offline-attacks does
UploadStoredAttacks == StartPass("api")

\* the */5 cron job of index.js, created unless config.offlineMode
SyncJob ==
  /\ ~config.offlineMode
  /\ IF consecutiveReportFailures > 0 THEN StartPass("cron")
                                      ELSE UNCHANGED vars

\* the pass ps after the request for its entry i was answered: the entry is
\* marked on success and pushed to remainingAttacks on failure
passAfter(ps, ok) ==
  IF ok THEN [ps EXCEPT !.attacks[ps.i].pending_upload = FALSE]
        ELSE [ps EXCEPT !.remainingAttacks = Append(@, ps.attacks[ps.i])]

\* what a pass that has ended as ps writes to the file and returns
passResult(ps) ==
  [file |-> pendingOnly(ps.attacks),
   uploaded |-> uploadedCount(ps.attacks),
   remaining |-> Len(ps.remainingAttacks)]

\* the awaited request of pass p completes; the loop goes on to the next
\* pending entry, or ends and the file is rewritten with the pending entries
\* of the array the pass read
PassStep(p, ok) ==
  /\ passes[p].pc = "running"
  /\ LET ps == passes[p]
         after == passAfter(ps, ok)
         next == nextPending(after.attacks, ps.i)
         result == passResult(after)
     IN /\ delivered' = IF ok THEN [delivered EXCEPT ![ps.attacks[ps.i].id] = @ + 1]
                              ELSE delivered
        /\ IF next # 0
             THEN /\ passes' = [passes EXCEPT ![p] = [after EXCEPT !.i = next]]
                  /\ UNCHANGED <<spool, consecutiveReportFailures>>
             ELSE /\ spool' = result.file
                  /\ passes' = [passes EXCEPT ![p] = NoPass]
                  /\ consecutiveReportFailures' =
                       IF ps.origin = "cron" /\ result.uploaded > 0
                          /\ result.remaining = 0
                         THEN 0 ELSE consecutiveReportFailures
  /\ UNCHANGED <<config, now, ticks, reportedIPCache, inflight, nEvents,
                 outcome, thrown, adapter, listenerVars, admitted, nReplays, nRestarts, hb>>

UploadAccepted(p) == PassStep(p, TRUE)

UploadRejected(p) == PassStep(p, FALSE)

----------------------------------------------------------------------------
(* One record through the adapter, the sender, the spool and the replay *)

pipelineVars == <<config, now, ticks, reportedIPCache, spool, inflight,
                  nEvents, outcome, thrown, admitted, delivered, passes,
                  nReplays, nRestarts, consecutiveReportFailures, hb>>

\* reportAttack: `const enhancedData = enhanceAttackData(attackData)`
Classify ==
  /\ adapter.pc = "input"
  /\ adapter' = [adapter EXCEPT
        !.pc = "enhanced",
        !.enhanced = <<enhanceAttackData(adapter.attackData)>>]
  /\ UNCHANGED <<pipelineVars, listenerVars>>

\* reportAttack: the request body is built and posted
BuildRequest ==
  /\ adapter.pc = "enhanced"
  /\ adapter' = [adapter EXCEPT
        !.pc = "sent",
        !.body = <<requestBody(0, adapter.enhanced[1])>>]
  /\ UNCHANGED <<pipelineVars, listenerVars>>

\* reportAttack's catch: storeAttackLocally(enhancedData)
StoreRecord ==
  /\ adapter.pc = "sent"
  /\ adapter' = [adapter EXCEPT
        !.pc = "stored",
        !.stored = <<spoolEntry(0, adapter.enhanced[1], FALSE)>>]
  /\ UNCHANGED <<pipelineVars, listenerVars>>

\* uploadStoredAttacks: the request for the stored entry
ReplayRecord ==
  /\ adapter.pc = "stored"
  /\ adapter' = [adapter EXCEPT
        !.pc = "replayed",
        !.replayBody = <<replayRequest(adapter.stored[1])>>]
  /\ UNCHANGED <<pipelineVars, listenerVars>>

\* enhanceAttackData: the canonical kind and the severity of the record
Grade ==
  /\ adapter.pc = "input"
  /\ LET standardizedType == mapAttackType(adapter.attackData.attack_type,
                                           adapter.attackData.evidence)
     IN adapter' = [adapter EXCEPT
           !.pc = "graded",
           !.standardizedType = standardizedType,
           !.severity = calculateSeverity(standardizedType,
                                          adapter.attackData)]
  /\ UNCHANGED <<pipelineVars, listenerVars>>

----------------------------------------------------------------------------
(* Process restart *)

\* The process exits and starts again with the same environment. Memory is
\* lost; at module load clearStoredAttacks empties the cache and unlinks
\* logs/stored_attacks.json, a file nothing writes. logs/offline_attacks.json
\* is left as it is.
clearStoredAttacks(file) == file

Restart ==
  /\ nRestarts < MaxRestarts
  /\ nRestarts' = nRestarts + 1
  /\ reportedIPCache' = EmptyCache
  /\ admitted' = NoAdmissions
  /\ inflight' = {}
  /\ passes' = [p \in DOMAIN passes |-> NoPass]
  /\ consecutiveReportFailures' = 0
  /\ spool' = clearStoredAttacks(spool)
  /\ UNCHANGED <<config, now, ticks, nEvents, outcome, thrown, adapter, listenerVars, delivered,
                 nReplays, hb>>

----------------------------------------------------------------------------
(* Web listeners: modules/http-honeypot.js under index.js, and the HTTPS   *)
(* admin portal                                                            *)

\* Date.now() at process start: later than every window the listeners use
ProcessStart == 1000000

Date_now == ProcessStart + now

\* whitelist of the HTTP detection middleware
SYSTEM_ENDPOINTS ==
  {"/monitor", "/api-diagnostics", "/test-heartbeat", "/debug"}

\* the paths the HTTP 404 handler passes on
NotFoundSkipped ==
  {"/monitor", "/debug", "/api-diagnostics", "/test-heartbeat"}

\* the diagnostic routes index.js registers, the last five in debug mode only
DiagnosticRoutes ==
  [method : {"GET"},
   path : {"/monitor", "/debug", "/api-diagnostics", "/test-heartbeat",
           "/offline-attacks"}]
    \cup [method : {"POST"}, path : {"/upload-offline-attacks"}]

\* request paths of the model: the diagnostic ones, the fake login and a page
\* no route serves
WebPaths ==
  {"/monitor", "/api-diagnostics", "/test-heartbeat", "/debug",
   "/offline-attacks", "/upload-offline-attacks", "/login", "/search"}

\* ATTACK_PATTERNS.SUSPICIOUS_ENDPOINTS: the paths of the model that contain
\* one of them
SuspiciousPaths == {"/login"}

\* query, body and user-agent of a request
RequestContents ==
  { [query |-> "", body |-> "", userAgent |-> "curl/8"],
    [query |-> "UNION SELECT", body |-> "", userAgent |-> "curl/8"],
    [query |-> "", body |-> "<script>", userAgent |-> "curl/8"],
    [query |-> "", body |-> "", userAgent |-> "sqlmap/1.7"] }

WebRequests ==
  [listener : {"http", "https"}, method : {"GET", "POST"}, path : WebPaths,
   ip : {"1.2.3.4"}, content : RequestContents]

\* detectAttack of http-honeypot.js; "" is null
detectAttack(req) ==
  IF req.path \in SuspiciousPaths THEN "SUSPICIOUS_ENDPOINT"
  ELSE IF req.content.query = "UNION SELECT" THEN "SQL_INJECTION"
  ELSE IF req.content.body = "<script>" THEN "XSS"
  ELSE IF req.content.userAgent = "sqlmap/1.7" THEN "SUSPICIOUS_USER_AGENT"
  ELSE ""

observation(req, attackType) ==
  [listener |-> req.listener, ip_address |-> req.ip, attack_type |-> attackType]

\* the detection middleware of setupHTTPHoneypot
httpDetection(req) ==
  IF req.path \in SYSTEM_ENDPOINTS THEN <<>>
  ELSE IF detectAttack(req) # "" THEN <<observation(req, detectAttack(req))>>
  ELSE <<>>

\* loginAttemptTracker entry after one more login attempt (HTTP and HTTPS
\* login handlers share the code)
trackLogin(tracker, ip, t) ==
  IF ip \notin DOMAIN tracker
    THEN [reported |-> FALSE,
          tracker |-> (ip :> [attempts |-> 1, lastAttempt |-> t,
                              lastReported |-> 0]) @@ tracker]
    ELSE LET attempts == tracker[ip].attempts + 1
             due == attempts >= 3 /\ t - tracker[ip].lastReported > 60000
         IN [reported |-> due,
             tracker |-> [tracker EXCEPT ![ip] =
                [attempts |-> attempts, lastAttempt |-> t,
                 lastReported |-> IF due THEN t ELSE @.lastReported]]]

\* who answers an HTTP request, in the order index.js registers the handlers:
\* the honeypot's routes, its 404 handler, /monitor, the debug routes, and
\* Express's own final handler
httpResponder(req, cfg) ==
  IF req.path = "/login" THEN
       [status |-> IF req.method = "GET" THEN 200 ELSE 401, by |-> "login"]
  ELSE IF req.path \notin NotFoundSkipped
       THEN [status |-> 404, by |-> "404-handler"]
  ELSE IF [method |-> req.method, path |-> req.path] \in DiagnosticRoutes
          /\ (req.path = "/monitor" \/ cfg.debugMode)
       THEN [status |-> 200, by |-> req.path]
  ELSE [status |-> 404, by |-> "express"]

\* one request through the HTTP application
HttpRequest(req) ==
  /\ req.listener = "http"
  /\ web.requests < MaxRequests
  /\ LET login == req.path = "/login" /\ req.method = "POST"
         t == trackLogin(web.httpLogins, req.ip, Date_now)
         events ==
           httpDetection(req)
             \o (IF login /\ t.reported
                   THEN <<observation(req, "LOGIN_BRUTEFORCE")>> ELSE <<>>)
             \o (IF login
                   THEN <<observation(req, "CREDENTIAL_HARVESTING")>>
                   ELSE <<>>)
     IN web' = [web EXCEPT
          !.requests = @ + 1,
          !.httpLogins = IF login THEN t.tracker ELSE @,
          !.last = <<[req |-> req, events |-> events,
                      response |-> httpResponder(req, config)]>>]
  /\ UNCHANGED <<pipelineVars, adapter, ssh, mail, mysql, supervisor, calls>>

\* suspiciousIPs entry of the HTTPS logging middleware after one more request
trackRequest(seen, req) ==
  LET old == IF req.ip \in DOMAIN seen THEN seen[req.ip]
             ELSE [count |-> 0, paths |-> {}]
      count == old.count + 1
      paths == old.paths \cup {req.path}
      due == count >= 3 /\ Cardinality(paths) >= 2
  IN [reported |-> due,
      seen |-> (req.ip :> [count |-> IF due THEN 0 ELSE count,
                           paths |-> paths]) @@ seen]

\* who answers an HTTPS request: the login handler or the catch-all
httpsResponder(req) ==
  IF req.path = "/login" /\ req.method = "POST"
    THEN [status |-> 401, by |-> "login"]
    ELSE [status |-> 404, by |-> "catch-all"]

\* one request through the HTTPS application
HttpsRequest(req) ==
  /\ req.listener = "https"
  /\ web.requests < MaxRequests
  /\ LET login == req.path = "/login" /\ req.method = "POST"
         s == trackRequest(web.suspiciousIPs, req)
         t == trackLogin(web.httpsLogins, req.ip, Date_now)
         events ==
           (IF s.reported THEN <<observation(req, "management_access")>>
                          ELSE <<>>)
             \o (IF login /\ t.reported
                   THEN <<observation(req, "admin_login_bruteforce")>>
                   ELSE <<>>)
             \o (IF login THEN <<observation(req, "admin_portal_access")>>
                 ELSE IF req.path # "/favicon.ico"
                   THEN <<observation(req, "suspicious_request")>>
                 ELSE <<>>)
     IN web' = [web EXCEPT
          !.requests = @ + 1,
          !.suspiciousIPs = s.seen,
          !.httpsLogins = IF login THEN t.tracker ELSE @,
          !.last = <<[req |-> req, events |-> events,
                      response |-> httpsResponder(req)]>>]
  /\ UNCHANGED <<pipelineVars, adapter, ssh, mail, mysql, supervisor, calls>>

----------------------------------------------------------------------------
(* Observations of a listener handed to reportAttack *)

RECURSIVE reportAll(_, _, _)
\* the listeners' reportAttack calls of one handler, in order, each up to its
\* throttle decision: the classified kind, the decision and the cache left
reportAll(cache, observations, t) ==
  IF observations = <<>> THEN [cache |-> cache, reports |-> <<>>]
  ELSE LET o == Head(observations)
           enhancedData == enhanceAttackData(
              [ip_address |-> o.ip_address, attack_type |-> o.attack_type,
               evidence |-> ListenerEvidence])
           attack_type == enhancedData.attack_type
           throttle == shouldThrottleReport(cache, o.ip_address, attack_type, t)
           checked == cacheAfterThrottleCheck(cache, o.ip_address, t)
           rest == reportAll(
              updateReportCache(checked, o.ip_address, attack_type, t),
              Tail(observations), t)
       IN [cache |-> rest.cache,
           reports |-> <<[rule |-> o.rule, ip_address |-> o.ip_address,
                          original_type |-> o.attack_type,
                          attack_type |-> attack_type,
                          throttled |-> throttle]>> \o rest.reports]

----------------------------------------------------------------------------
(* SSH listener: modules/ssh-honeypot.js *)

\* delay of the port-scan timer armed on accept
PORT_SCAN_TIMEOUT == 5000
\* trackConnectionAttempt: attempts older than this are forgotten
RAPID_WINDOW == 60000
\* trackConnectionAttempt: no second report within this time
RAPID_REPORT_GAP == 120000
\* the sweep of connectionTracker drops sources idle for this long
CONNECTION_IDLE == 7200000
\* the sweep of authAttemptTracker drops sources idle for this long
AUTH_IDLE == 3600000

\* the bait accounts of setupSSHHoneypot
users == [u \in {"root"} |-> [password |-> "password123"]]

\* the source address of the SSH clients
SshSources == {"5.6.7.8"}

\* what a client presents in an authentication request
SshCredentials ==
  { [method |-> "password", username |-> "root", password |-> "password123"],
    [method |-> "password", username |-> "root", password |-> "toor"] }

\* clock advances of the SSH listener's model: past the connection window
\* (and the port-scan delay), past the idle time of the sweeps
SshClockSteps == {RAPID_WINDOW + 1, CONNECTION_IDLE + 1}

SeqMax(s) ==
  CHOOSE m \in {s[j] : j \in 1..Len(s)} : \A j \in 1..Len(s) : s[j] <= m

\* mutation of trackConnectionAttempt's rule: the report gap is the window
rapidRule_ShortGap(attempts, lastReportTime, t) ==
  Len(attempts) >= 3 /\ t - lastReportTime > RAPID_WINDOW

\* trackConnectionAttempt's rule on the pruned list
rapidRule(attempts, lastReportTime, t) ==
  Len(attempts) >= 3 /\ t - lastReportTime > RAPID_REPORT_GAP

\* trackConnectionAttempt(ipAddress) at time t
trackConnectionAttempt(tracker, ip, t) ==
  LET old == IF ip \in DOMAIN tracker THEN tracker[ip]
             ELSE [attempts |-> <<>>, lastReportTime |-> 0]
      attempts == SelectSeq(Append(old.attempts, t),
                            LAMBDA time : time > t - RAPID_WINDOW)
      due == rapidRule(attempts, old.lastReportTime, t)
  IN [reported |-> due,
      tracker |-> (ip :> [attempts |-> attempts,
                          lastReportTime |-> IF due THEN t
                                            ELSE old.lastReportTime])
                    @@ tracker]

\* the 5-minute sweep of connectionTracker
cleanupConnectionTracker(tracker, t) ==
  [ip \in {a \in DOMAIN tracker :
             ~(\/ Len(tracker[a].attempts) = 0
               \/ SeqMax(tracker[a].attempts) < t - CONNECTION_IDLE)}
     |-> tracker[ip]]

\* the 5-minute sweep of authAttemptTracker
cleanupAuthTracker(tracker, t) ==
  [ip \in {a \in DOMAIN tracker : ~(t - tracker[a].lastAttempt > AUTH_IDLE)}
     |-> tracker[ip]]

\* client.on("authentication"): ctx.accept() or ctx.reject()
authAccepted(ctx) ==
  /\ ctx.method = "password"
  /\ ctx.username \in DOMAIN users
  /\ users[ctx.username].password = ctx.password

\* mutation of client.on("end"): the timer is left armed
timerAfterEnd_LeftArmed(timer) == timer

\* client.on("end") and client.on("error"): clearTimeout(connectionTimeout)
timerAfterEnd(timer) == IF timer = "armed" THEN "cleared" ELSE timer

\* connectionInfo and connectionTimeout of a new client
newSession(ip, t) ==
  [ip |-> ip, acceptedAt |-> t, timer |-> "armed", hasAuthenticated |-> FALSE,
   ready |-> FALSE, ended |-> FALSE, authAttempts |-> 0,
   portScans |-> 0, lateScans |-> 0]

\* what is kept of a session that is over and whose timer is settled
closedSession(c) ==
  [hasAuthenticated |-> c.hasAuthenticated, ready |-> c.ready,
   timer |-> c.timer, portScans |-> c.portScans, lateScans |-> c.lateScans]

\* the Map or table f without key k
without(f, k) == [x \in DOMAIN f \ {k} |-> f[x]]

sshObservation(rule, ip, attackType) ==
  [rule |-> rule, ip_address |-> ip, attack_type |-> attackType]

openSessions == {s \in DOMAIN ssh.sessions : ~ssh.sessions[s].ended}

sshOthers == <<config, ticks, spool, inflight, nEvents, outcome, thrown,
               admitted, delivered, passes, nReplays, nRestarts,
               consecutiveReportFailures, hb, adapter, web, mail, mysql,
               supervisor, calls>>

\* the handler's observations pass through reportAttack; the rest of the
\* handler's effect is in `next`
sshHandled(handler, s, observations, next) ==
  LET r == reportAll(reportedIPCache, observations, now)
  IN /\ reportedIPCache' = r.cache
     /\ ssh' = [next EXCEPT
          !.last = <<[handler |-> handler, reports |-> r.reports]>>]
     /\ UNCHANGED <<now, sshOthers>>

\* the three most recent entries of a list of times
lastThree(times) ==
  IF Len(times) <= 3 THEN times ELSE SubSeq(times, Len(times) - 2, Len(times))

\* the server's connection callback: one client at a time
SshAccept(ip) ==
  /\ ssh.connections < MaxConnections
  /\ DOMAIN ssh.sessions = {}
  /\ LET t == trackConnectionAttempt(ssh.connectionTracker, ip, Date_now)
         s == ssh.connections + 1
     IN sshHandled("connection", s,
          IF t.reported
            THEN <<sshObservation("rapid", ip, "SSH_BRUTEFORCE_SCAN")>>
            ELSE <<>>,
          [ssh EXCEPT
             !.connections = s,
             !.connectionTracker = t.tracker,
             !.sessions = (s :> newSession(ip, Date_now)) @@ @,
             !.accepted[ip] = lastThree(Append(@, Date_now)),
             !.rapid[ip] =
                IF t.reported
                  THEN [n |-> @.n + 1, at |-> Date_now, previous |-> @.at,
                        recent |-> lastThree(
                                     Append(ssh.accepted[ip], Date_now))]
                  ELSE @])

\* client.on("authentication")
SshAuthentication(s, ctx) ==
  /\ s \in openSessions
  /\ ~ssh.sessions[s].ready
  /\ ssh.authentications < MaxAuthAttempts
  /\ LET ip == ssh.sessions[s].ip
         t == trackLogin(ssh.authAttemptTracker, ip, Date_now)
     IN sshHandled("authentication", s,
          (IF t.reported
             THEN <<sshObservation("bruteforce", ip, "SSH_BRUTEFORCE")>>
             ELSE <<>>)
            \o <<sshObservation("attempt", ip, "SSH_BRUTEFORCE")>>,
          [ssh EXCEPT
             !.authentications = @ + 1,
             !.authAttemptTracker = t.tracker,
             !.sessions[s].timer = IF @ = "armed" THEN "cleared" ELSE @,
             !.sessions[s].hasAuthenticated = TRUE,
             !.sessions[s].authAttempts = @ + 1,
             !.sessions[s].ready = authAccepted(ctx)])

\* the callback of connectionTimeout
SshTimerFires(s) ==
  /\ s \in DOMAIN ssh.sessions
  /\ ssh.sessions[s].timer = "armed"
  /\ Date_now - ssh.sessions[s].acceptedAt >= PORT_SCAN_TIMEOUT
  /\ LET c == ssh.sessions[s]
         scan == ~c.hasAuthenticated
         fired == [c EXCEPT
            !.timer = "fired",
            !.portScans = IF scan THEN @ + 1 ELSE @,
            !.lateScans = IF scan /\ (c.hasAuthenticated \/ c.ended)
                            THEN @ + 1 ELSE @]
     IN sshHandled("timeout", s,
          IF scan THEN <<sshObservation("timer", c.ip, "PORT_SCAN")>>
                  ELSE <<>>,
          IF c.ended
            THEN [ssh EXCEPT !.sessions = without(@, s),
                             !.lastClosed = <<closedSession(fired)>>]
            ELSE [ssh EXCEPT !.sessions[s] = fired])

\* client.on("end") and client.on("error"): the session is over; its record
\* stays while its timer is armed
SshEnd(s, handler) ==
  /\ s \in openSessions
  /\ LET c == [ssh.sessions[s] EXCEPT
            !.timer = timerAfterEnd(@), !.ended = TRUE]
     IN sshHandled(handler, s, <<>>,
          IF c.timer = "armed"
            THEN [ssh EXCEPT !.sessions[s] = c]
            ELSE [ssh EXCEPT !.sessions = without(@, s),
                             !.lastClosed = <<closedSession(c)>>])

\* the two setInterval sweeps
SshCleanup ==
  /\ ssh' = [ssh EXCEPT
       !.connectionTracker = cleanupConnectionTracker(@, Date_now),
       !.authAttemptTracker = cleanupAuthTracker(@, Date_now)]
  /\ ssh' # ssh
  /\ UNCHANGED <<now, reportedIPCache, sshOthers>>

----------------------------------------------------------------------------
(* Mail listeners: the SMTP and POP3 servers of modules/mail-honeypot.js *)

\* a session shorter than this with at most one command is reported as a scan
SCAN_DURATION_MS == 500

\* the source address of the mail clients
MailSources == {"5.6.7.8"}

\* recipient domains of RCPT TO commands, in the order a session first uses
\* them
RcptDomainList == <<"a.example", "b.example", "c.example", "d.example">>

\* the domains a session that has used `used` may name next: a used one or
\* the first unused one
nextDomains(used) ==
  used \cup {RcptDomainList[j] : j \in {k \in 1..Len(RcptDomainList) :
                /\ RcptDomainList[k] \notin used
                /\ \A i \in 1..(k - 1) : RcptDomainList[i] \in used}}

\* the SMTP commands of the model
SmtpCommands ==
  [verb : {"RCPT TO"},
   domain : {RcptDomainList[j] : j \in 1..Len(RcptDomainList)}]
    \cup [verb : {"VRFY", "RSET", "QUIT"}, domain : {""}]

\* clock advances of the mail listeners' model
MailClockSteps == {SCAN_DURATION_MS, 60000}

\* the session object of a new SMTP client, with what the model keeps of its
\* arrays: commands as its length and its VRFY/EXPN count, rcptTo as its
\* length and its set of domains
newSmtpSession(ip, t) ==
  [ip |-> ip, startTime |-> t, closed |-> FALSE,
   commands |-> 0, vrfyCount |-> 0, rcptTo |-> 0, domains |-> {},
   received |-> [rcpt |-> 0, domains |-> {}],
                        \* the RCPT TO commands received, whatever followed
   harvesting |-> 0,    \* email_harvesting reports of the session
   harvestingOpen |-> 0,\* those made before the close
   relays |-> 0,        \* smtp_relay_attempt reports of the session
   relayKind |-> "",    \* the kind the last of them was classified as
   inDataMode |-> FALSE,
   data |-> 0,          \* chunks pushed to session.data
   spamChecks |-> 0,    \* calls of detectSpam
   accepted |-> 0,      \* "250 Message accepted" replies
   authAttempts |-> 0, maxAuthAttempts |-> 3,
   rejectTimers |-> <<>>,  \* armed setTimeout callbacks of AUTH, each with
                           \* the index of the command that armed it
   lastCause |-> 0,     \* the index of the input whose event was emitted
                        \* last; the close counts as the input after the last
   disorder |-> FALSE]  \* an event was emitted after one of a later input

mailObservation(rule, ip, attackType) ==
  [rule |-> rule, ip_address |-> ip, attack_type |-> attackType]

mailOthers == <<config, ticks, spool, inflight, nEvents, outcome, thrown,
                admitted, delivered, passes, nReplays, nRestarts,
                consecutiveReportFailures, hb, adapter, web, ssh, mysql,
                supervisor, calls>>

\* net.createServer callback of createSMTPServer
SmtpConnect(ip) ==
  /\ \A j \in 1..Len(mail.smtp) :
       mail.smtp[j].closed /\ mail.smtp[j].rejectTimers = <<>>
  /\ mail.smtpSessions < MaxMailSessions
  /\ mail' = [mail EXCEPT !.smtpSessions = @ + 1,
                          !.smtp = <<newSmtpSession(ip, Date_now)>>]
  /\ UNCHANGED <<now, reportedIPCache, mailOthers>>

\* the session after socket.on("data") has processed one command line
smtpAfter(session, cmd) ==
  LET counted == [session EXCEPT
         !.commands = @ + 1,
         !.vrfyCount = IF cmd.verb = "VRFY" THEN @ + 1 ELSE @]
  IN IF cmd.verb = "RCPT TO"
       THEN [counted EXCEPT
               !.rcptTo = @ + 1,
               !.domains = @ \cup {cmd.domain},
               !.received = [rcpt |-> @.rcpt + 1,
                             domains |-> @.domains \cup {cmd.domain}]]
     ELSE IF cmd.verb = "RSET"
       THEN [counted EXCEPT !.rcptTo = 0, !.domains = {}]
     ELSE counted

\* the observations socket.on("data") makes on the command
smtpObservations(session, cmd) ==
  IF cmd.verb = "RCPT TO" /\ session.rcptTo > 10
    THEN <<mailObservation("harvesting", session.ip, "email_harvesting")>>
  ELSE IF cmd.verb = "VRFY" /\ session.vrfyCount > 5
    THEN <<mailObservation("harvesting", session.ip, "email_harvesting")>>
  ELSE <<>>

\* the session after it has emitted `reports` on the input of index cause
emittedOn(session, reports, cause) ==
  IF reports = <<>> THEN session
  ELSE [session EXCEPT !.lastCause = cause,
                       !.disorder = @ \/ cause < session.lastCause]

\* socket.on("data") of the SMTP server, outside DATA mode
SmtpCommand(cmd) ==
  /\ mail.smtp # <<>> /\ ~mail.smtp[1].closed
  /\ ~mail.smtp[1].inDataMode
  /\ mail.smtpCommands < MaxSmtpCommands
  /\ cmd.verb = "RCPT TO" =>
       cmd.domain \in nextDomains(mail.smtp[1].received.domains)
  /\ LET after == smtpAfter(mail.smtp[1], cmd)
         r == reportAll(reportedIPCache, smtpObservations(after, cmd), now)
     IN /\ reportedIPCache' = r.cache
        /\ mail' = [mail EXCEPT
              !.smtpCommands = @ + 1,
              !.smtp = <<[emittedOn(after, r.reports, after.commands) EXCEPT
                   !.harvesting = @ + Len(r.reports),
                   !.harvestingOpen = @ + Len(r.reports)]>>]
        /\ UNCHANGED <<now, mailOthers>>

\* the observations socket.on("close") of the SMTP server makes
smtpCloseObservations(session, t) ==
  (IF t - session.startTime < SCAN_DURATION_MS /\ session.commands <= 1
     THEN <<mailObservation("scan", session.ip, "smtp_scan")>> ELSE <<>>)
    \o (IF session.rcptTo > 5 /\ Cardinality(session.domains) > 3
          THEN <<mailObservation("relay", session.ip, "smtp_relay_attempt")>>
          ELSE <<>>)

\* socket.on("close") of the SMTP server
SmtpClose ==
  /\ mail.smtp # <<>> /\ ~mail.smtp[1].closed
  /\ LET session == mail.smtp[1]
         r == reportAll(reportedIPCache,
                        smtpCloseObservations(session, Date_now), now)
         relayed == SelectSeq(r.reports, LAMBDA o : o.rule = "relay")
     IN /\ reportedIPCache' = r.cache
        /\ mail' = [mail EXCEPT !.smtp = <<[
              emittedOn(session, r.reports, session.commands + 1) EXCEPT
              !.closed = TRUE,
              !.relays = @ + Len(relayed),
              !.relayKind = IF relayed = <<>> THEN @
                            ELSE relayed[1].attack_type]>>]
        /\ UNCHANGED <<now, mailOthers>>

\* socket.on("data") on "AUTH ...": the attempt is counted and the rejection
\* is scheduled
SmtpAuth ==
  /\ mail.smtp # <<>> /\ ~mail.smtp[1].closed
  /\ ~mail.smtp[1].inDataMode
  /\ mail.smtpCommands < MaxSmtpCommands
  /\ mail' = [mail EXCEPT
       !.smtpCommands = @ + 1,
       !.smtp[1].commands = @ + 1,
       !.smtp[1].authAttempts = @ + 1,
       !.smtp[1].rejectTimers = Append(@, mail.smtp[1].commands + 1)]
  /\ UNCHANGED <<now, reportedIPCache, mailOthers>>

\* the setTimeout callback of the oldest AUTH not yet rejected: "535" and,
\* from three attempts of the session on, the smtp_auth_attempt report
SmtpAuthRejected ==
  /\ mail.smtp # <<>> /\ mail.smtp[1].rejectTimers # <<>>
  /\ LET session == mail.smtp[1]
         r == reportAll(reportedIPCache,
                IF session.authAttempts >= session.maxAuthAttempts
                  THEN <<mailObservation("auth", session.ip,
                                         "smtp_auth_attempt")>>
                  ELSE <<>>,
                now)
     IN /\ reportedIPCache' = r.cache
        /\ mail' = [mail EXCEPT !.smtp = <<[
              emittedOn(session, r.reports, Head(session.rejectTimers)) EXCEPT
              !.rejectTimers = Tail(@)]>>]
        /\ UNCHANGED <<now, mailOthers>>

\* chunks a client sends in DATA mode: a body line, the end-of-data marker
\* alone, after a line, and with bare line feeds
DataChunks ==
  {<<"x", "CR", "LF">>,
   <<"CR", "LF", ".", "CR", "LF">>,
   <<"x", "CR", "LF", ".", "CR", "LF">>,
   <<"x", "LF", ".", "LF">>}

\* String.prototype.trim: white space is removed from both ends
trim(chunk) ==
  LET kept == {j \in 1..Len(chunk) : chunk[j] \notin {"CR", "LF"}}
  IN IF kept = {} THEN <<>>
     ELSE SubSeq(chunk, CHOOSE j \in kept : \A k \in kept : j <= k,
                        CHOOSE j \in kept : \A k \in kept : j >= k)

\* String.prototype.endsWith
endsWith(text, suffix) ==
  /\ Len(text) >= Len(suffix)
  /\ SubSeq(text, Len(text) - Len(suffix) + 1, Len(text)) = suffix

\* the end-marker test of DATA mode on the command string of a chunk
endOfData(command) ==
  \/ endsWith(command, <<"CR", "LF", ".", "CR", "LF">>)
  \/ endsWith(command, <<"LF", ".", "LF">>)

\* socket.on("data") on "DATA": the session enters DATA mode
SmtpData ==
  /\ mail.smtp # <<>> /\ ~mail.smtp[1].closed
  /\ ~mail.smtp[1].inDataMode
  /\ mail.smtpCommands < MaxSmtpCommands
  /\ mail' = [mail EXCEPT
       !.smtpCommands = @ + 1,
       !.smtp[1].commands = @ + 1,
       !.smtp[1].inDataMode = TRUE]
  /\ UNCHANGED <<now, reportedIPCache, mailOthers>>

\* socket.on("data") in DATA mode: the chunk is trimmed and pushed to
\* session.data; on the end marker the session leaves DATA mode, detectSpam
\* runs on the body (of no spam here) and the message is accepted
SmtpDataInput(chunk) ==
  /\ mail.smtp # <<>> /\ ~mail.smtp[1].closed
  /\ mail.smtp[1].inDataMode
  /\ mail.smtpCommands < MaxSmtpCommands
  /\ LET command == trim(chunk)
     IN mail' = [mail EXCEPT
          !.smtpCommands = @ + 1,
          !.smtp[1].data = @ + 1,
          !.smtp[1].inDataMode = ~endOfData(command),
          !.smtp[1].spamChecks = IF endOfData(command) THEN @ + 1 ELSE @,
          !.smtp[1].accepted = IF endOfData(command) THEN @ + 1 ELSE @]
  /\ UNCHANGED <<now, reportedIPCache, mailOthers>>

\* the session object of a new POP3 client
newPop3Session(ip, t) ==
  [ip |-> ip, startTime |-> t, closed |-> FALSE, commands |-> 0,
   authAttempts |-> 0, maxAuthAttempts |-> 3,
   rejectTimers |-> 0]  \* armed setTimeout callbacks of "pass"

\* net.createServer callback of createPOP3Server
Pop3Connect(ip) ==
  /\ \A j \in 1..Len(mail.pop3) :
       mail.pop3[j].closed /\ mail.pop3[j].rejectTimers = 0
  /\ mail.pop3Sessions < MaxMailSessions
  /\ mail' = [mail EXCEPT !.pop3Sessions = @ + 1,
                          !.pop3 = <<newPop3Session(ip, Date_now)>>]
  /\ UNCHANGED <<now, reportedIPCache, mailOthers>>

\* socket.on("data") of the POP3 server on "pass ...": the attempt is counted
\* and the rejection is scheduled
Pop3Pass ==
  /\ mail.pop3 # <<>> /\ ~mail.pop3[1].closed
  /\ mail.pop3Attempts < MaxPop3Attempts
  /\ mail' = [mail EXCEPT
       !.pop3Attempts = @ + 1,
       !.pop3[1].commands = @ + 1,
       !.pop3[1].authAttempts = @ + 1,
       !.pop3[1].rejectTimers = @ + 1]
  /\ UNCHANGED <<now, reportedIPCache, mailOthers>>

\* the bruteforce rule of the POP3 rejection
pop3BruteforceDue(session) == session.authAttempts >= session.maxAuthAttempts

\* the setTimeout callback of "pass": the rejection and the bruteforce report
Pop3Reject ==
  /\ mail.pop3 # <<>> /\ mail.pop3[1].rejectTimers > 0
  /\ LET session == mail.pop3[1]
         r == reportAll(reportedIPCache,
                IF pop3BruteforceDue(session)
                  THEN <<mailObservation("bruteforce", session.ip,
                                         "pop3_bruteforce")>>
                  ELSE <<>>,
                now)
     IN /\ reportedIPCache' = r.cache
        /\ mail' = [mail EXCEPT
              !.pop3[1].rejectTimers = @ - 1,
              !.bruteforce[session.ip] =
                 IF r.reports = <<>> THEN @
                 ELSE [n |-> @.n + 1, at |-> Date_now, previous |-> @.at,
                       attempts |-> session.authAttempts]]
        /\ UNCHANGED <<now, mailOthers>>

\* socket.on("close") of the POP3 server
Pop3Close ==
  /\ mail.pop3 # <<>> /\ ~mail.pop3[1].closed
  /\ LET session == mail.pop3[1]
         r == reportAll(reportedIPCache,
                IF Date_now - session.startTime < SCAN_DURATION_MS
                   /\ session.commands <= 1
                  THEN <<mailObservation("scan", session.ip, "pop3_scan")>>
                  ELSE <<>>,
                now)
     IN /\ reportedIPCache' = r.cache
        /\ mail' = [mail EXCEPT !.pop3[1].closed = TRUE]
        /\ UNCHANGED <<now, mailOthers>>

----------------------------------------------------------------------------
(* Supervisor: index.js starts the scheduler and the listeners *)

\* the modules in the order index.js starts them
ModuleNames == <<"http", "ssh", "ftp">>

\* how the start of a module can go: its setup returns and its port is bound,
\* its setup throws, or its setup returns and the bind fails later
StartOutcomes == {"ok", "throws", "bindFails"}

\* index.js reaches the setup call of its next module. setupHTTPHoneypot
\* only registers routes; the SSH and FTP setup calls touch the file system
\* and are inside a try whose catch records the status "error"
StartModule(result) ==
  /\ supervisor.alive
  /\ supervisor.next <= Len(ModuleNames)
  /\ result = "throws" => ModuleNames[supervisor.next] # "http"
  /\ LET m == ModuleNames[supervisor.next]
     IN supervisor' =
          IF result = "throws"
            THEN [supervisor EXCEPT
                    !.next = @ + 1,
                    !.failed = @ \cup {m},
                    !.activeModules = @ @@ (m :> "error")]
            ELSE [supervisor EXCEPT
                    !.next = @ + 1,
                    !.activeModules = @ @@ (m :> "running"),
                    !.listening = @ @@ (m :> result)]
  /\ UNCHANGED <<pipelineVars, adapter, web, ssh, mail, mysql,
                 calls>>

\* the listen call of module m completes. No listener of these servers is
\* registered for 'error': a failed bind of the HTTP or the SSH server is an
\* unhandled 'error' event, which ends the process; what the ftpd server does
\* with it is the library's choice
ListenCompletes(m, survives) ==
  /\ supervisor.alive
  /\ supervisor.next > Len(ModuleNames)
  /\ m \in DOMAIN supervisor.listening
  /\ supervisor.listening[m] \in {"ok", "bindFails"}
  /\ survives = FALSE => supervisor.listening[m] = "bindFails"
  /\ survives = TRUE =>
       supervisor.listening[m] = "ok" \/ m = "ftp"
  /\ supervisor' =
       IF supervisor.listening[m] = "ok"
         THEN [supervisor EXCEPT !.listening[m] = "bound"]
         ELSE [supervisor EXCEPT !.listening[m] = "failed",
                                 !.failed = @ \cup {m},
                                 !.alive = survives]
  /\ UNCHANGED <<pipelineVars, adapter, web, ssh, mail, mysql,
                 calls>>

\* the cron job of the heartbeat fires in the running process
CronFires ==
  /\ supervisor.alive
  /\ supervisor.cron < MaxHeartbeats
  /\ supervisor' = [supervisor EXCEPT !.cron = @ + 1]
  /\ UNCHANGED <<pipelineVars, adapter, web, ssh, mail, mysql,
                 calls>>

----------------------------------------------------------------------------
(* Diagnostic surface: the heartbeat record, /debug and /api-diagnostics *)

\* values of the API_KEY environment variable
ApiKeys == {"key-A", "key-B"}

\* how the backend answers a heartbeat or a connection test: with a status,
\* or not at all (status 0)
BackendAnswers == {200, 401, 0}

\* sendHeartbeat's records of its request and of the answer it got
heartbeatRecord(env, answer) ==
  [request |-> <<[method |-> "POST",
                  params |-> [api_key |-> "***redacted***"]]>>,
   response |-> IF answer = 200 THEN <<[status |-> answer]>> ELSE <<>>,
   error |-> IF answer = 200 THEN <<>>
             ELSE <<[response |-> IF answer = 0 THEN <<>>
                                  ELSE <<[status |-> answer]>>]>>]

\* a heartbeat is sent and answered: lastHeartbeatRequest is replaced, and
\* the response on success, the error on failure; a success clears the
\* error, a failure leaves the last response
HeartbeatRecorded(answer) ==
  /\ supervisor.alive
  /\ LET record == heartbeatRecord(supervisor.env, answer)
     IN supervisor' = [supervisor EXCEPT
          !.heartbeatInfo =
             [request |-> record.request,
              response |-> IF answer = 200 THEN record.response
                           ELSE @.response,
              error |-> record.error]]
  /\ UNCHANGED <<pipelineVars, adapter, web, ssh, mail, mysql,
                 calls>>

\* the body GET /debug answers with in a process whose environment is env
debugBody(sup, env) ==
  [activeModules |-> sup.activeModules,
   config |-> [apiKey |-> "***redacted***"],
   environment |-> env,
   heartbeatInfo |-> sup.heartbeatInfo]

\* the body GET /api-diagnostics answers with after its connection test
apiDiagnosticsBody(sup, env, answer) ==
  [connectionTest |-> [success |-> answer = 200, status |-> answer],
   lastHeartbeat |-> sup.heartbeatInfo]

\* the body a diagnostic route answers with
diagnosticBody(path, sup, env, answer) ==
  IF path = "/debug" THEN debugBody(sup, env)
  ELSE apiDiagnosticsBody(sup, env, answer)

\* GET /debug or GET /api-diagnostics in debug mode; `answer` is the
\* backend's answer to the connection test of /api-diagnostics
DiagnosticRequest(path, answer) ==
  /\ supervisor.alive
  /\ config.debugMode
  /\ path = "/debug" => answer = 200
  /\ supervisor' = [supervisor EXCEPT
       !.answered = <<[path |-> path, answer |-> answer,
                       modules |-> supervisor.activeModules,
                       heartbeatInfo |-> supervisor.heartbeatInfo,
                       body |-> diagnosticBody(path, supervisor,
                                               supervisor.env, answer)]>>]
  /\ UNCHANGED <<pipelineVars, adapter, web, ssh, mail, mysql,
                 calls>>

----------------------------------------------------------------------------
(* MySQL listener: modules/mysql-honeypot.js *)

\* packets a client sends: a login request and a query with an injection
SqlPackets == {"auth", "query"}

\* the session object of a new MySQL client
newSqlSession(ip, t) ==
  [ip |-> ip, startTime |-> t, closed |-> FALSE,
   state |-> "HANDSHAKE_SENT", authAttempts |-> 0, maxAuthAttempts |-> 3,
   queries |-> 0,
   rejectTimers |-> 0,  \* armed setTimeout callbacks of the login branch
   received |-> 0,      \* packets received
   lastPacket |-> "",   \* the last of them
   denied |-> 0,        \* "Access denied" packets sent
   bruteforce |-> 0,    \* mysql_bruteforce reports
   sqli |-> 0]          \* mysql_sqli_attempt reports

mysqlOthers == <<config, ticks, spool, inflight, nEvents, outcome, thrown,
                 admitted, delivered, passes, nReplays, nRestarts,
                 consecutiveReportFailures, hb, adapter, web, ssh, mail,
                 supervisor, calls>>

\* net.createServer callback of setupMySQLHoneypot
SqlConnect(ip) ==
  /\ \A j \in 1..Len(mysql.session) :
       mysql.session[j].closed /\ mysql.session[j].rejectTimers = 0
  /\ mysql.sessions < MaxSqlSessions
  /\ mysql' = [mysql EXCEPT !.sessions = @ + 1,
                            !.session = <<newSqlSession(ip, Date_now)>>]
  /\ UNCHANGED <<now, reportedIPCache, mysqlOthers>>

\* mutation of sqlData: the first login request authenticates the session
sqlData_Authenticating(session, packet) ==
  IF session.state = "HANDSHAKE_SENT"
    THEN [session EXCEPT !.state = "AUTHENTICATED",
                         !.authAttempts = @ + 1,
                         !.rejectTimers = @ + 1]
    ELSE [session EXCEPT !.queries = @ + 1]

\* the session after socket.on("data") has handled a packet: in state
\* HANDSHAKE_SENT it is a login request, whose rejection is scheduled; in
\* state AUTHENTICATED it is a query
sqlData(session, packet) ==
  IF session.state = "HANDSHAKE_SENT"
    THEN [session EXCEPT !.authAttempts = @ + 1,
                         !.rejectTimers = @ + 1]
  ELSE IF session.state = "AUTHENTICATED"
    THEN [session EXCEPT !.queries = @ + 1]
  ELSE session

\* detectSQLi on the query of a packet
detectSQLi(packet) == packet = "query"

\* socket.on("data") of the MySQL server
SqlData(packet) ==
  /\ mysql.session # <<>> /\ ~mysql.session[1].closed
  /\ mysql.packets < MaxSqlPackets
  /\ LET session == mysql.session[1]
         after == sqlData(session, packet)
         r == reportAll(reportedIPCache,
                IF session.state = "AUTHENTICATED" /\ detectSQLi(packet)
                  THEN <<mailObservation("sqli", session.ip,
                                         "mysql_sqli_attempt")>>
                  ELSE <<>>,
                now)
     IN /\ reportedIPCache' = r.cache
        /\ mysql' = [mysql EXCEPT
              !.packets = @ + 1,
              !.session = <<[after EXCEPT
                   !.received = @ + 1,
                   !.lastPacket = packet,
                   !.sqli = @ + Len(r.reports)]>>]
        /\ UNCHANGED <<now, mysqlOthers>>

\* the setTimeout callback of a login request: "Access denied" and, from
\* three attempts of the session on, the mysql_bruteforce report
SqlReject ==
  /\ mysql.session # <<>> /\ mysql.session[1].rejectTimers > 0
  /\ LET session == mysql.session[1]
         r == reportAll(reportedIPCache,
                IF session.authAttempts >= session.maxAuthAttempts
                  THEN <<mailObservation("bruteforce", session.ip,
                                         "mysql_bruteforce")>>
                  ELSE <<>>,
                now)
     IN /\ reportedIPCache' = r.cache
        /\ mysql' = [mysql EXCEPT
              !.session[1].rejectTimers = @ - 1,
              !.session[1].denied = @ + 1,
              !.session[1].bruteforce = @ + Len(r.reports)]
        /\ UNCHANGED <<now, mysqlOthers>>

\* socket.on("close") of the MySQL server
SqlClose ==
  /\ mysql.session # <<>> /\ ~mysql.session[1].closed
  /\ LET session == mysql.session[1]
         r == reportAll(reportedIPCache,
                IF Date_now - session.startTime < SCAN_DURATION_MS
                   /\ session.authAttempts = 0
                  THEN <<mailObservation("scan", session.ip, "mysql_scan")>>
                  ELSE <<>>,
                now)
     IN /\ reportedIPCache' = r.cache
        /\ mysql' = [mysql EXCEPT !.session[1].closed = TRUE]
        /\ UNCHANGED <<now, mysqlOthers>>

----------------------------------------------------------------------------
(* reportAttack statement by statement: api-service.js *)

callOthers == <<config, ticks, inflight, nEvents, outcome, thrown, admitted,
                delivered, passes, nReplays, nRestarts,
                consecutiveReportFailures, hb, adapter, web, ssh, mail,
                mysql, supervisor>>

\* mutation of yieldsBefore: the cache update is awaited
yieldsBefore_Update(pc) == pc \in {"update", "await", "done"}

\* the statements before which a reportAttack call gives up the thread: its
\* awaited request and its return; everything before them runs in the
\* caller's turn of the event loop
yieldsBefore(pc) == pc \in {"await", "done"}

\* reportAttack is called and runs up to its throttle decision:
\* enhanceAttackData, then shouldThrottleReport with its own Date.now()
CallReportAttack(ip, internalKind) ==
  /\ calls.thread = 0
  /\ Len(calls.call) < MaxEvents
  /\ LET c == Len(calls.call) + 1
         enhancedData == enhanceAttackData(
            [ip_address |-> ip, attack_type |-> internalKind,
             evidence |-> ListenerEvidence])
         throttle == shouldThrottleReport(reportedIPCache, ip,
                                          enhancedData.attack_type, now)
     IN /\ reportedIPCache' = cacheAfterThrottleCheck(reportedIPCache, ip, now)
        /\ calls' = [calls EXCEPT
              !.thread = IF yieldsBefore("update") THEN 0 ELSE c,
              !.call = Append(@, [ip |-> ip, data |-> enhancedData,
                                  throttle |-> throttle, pc |-> "update",
                                  inFlight |->
                                    {b \in 1..Len(calls.call) :
                                       calls.call[b].pc = "await"}]),
              !.since = [a \in DOMAIN reportedIPCache' |-> @[a]]]
  /\ UNCHANGED <<now, spool, callOthers>>

\* the call goes on to updateReportCache, with its own Date.now(), and from
\* there to its return (suppressed, or stored in offline mode) or its request
UpdateReportCache(c) ==
  /\ c \in 1..Len(calls.call)
  /\ calls.call[c].pc = "update"
  /\ calls.thread \in {0, c}
  /\ LET this == calls.call[c]
         ip == this.ip
         attack_type == this.data.attack_type
         created == \/ ip \notin DOMAIN reportedIPCache
                    \/ isExpired(reportedIPCache[ip], now)
         next == IF this.throttle \/ offlineModeOf(config)
                   THEN "done" ELSE "await"
     IN /\ reportedIPCache' =
             updateReportCache(reportedIPCache, ip, attack_type, now)
        /\ spool' =
             IF this.throttle
               THEN IF config.storeThrottledAttacks
                      THEN storeAttackLocally(spool,
                             spoolEntry(c, this.data, TRUE))
                      ELSE spool
             ELSE IF offlineModeOf(config)
               THEN storeAttackLocally(spool, spoolEntry(c, this.data, FALSE))
             ELSE spool
        /\ calls' = [calls EXCEPT
              !.thread = IF yieldsBefore(next) THEN 0 ELSE c,
              !.call[c].pc = next,
              !.since = [a \in DOMAIN reportedIPCache' |->
                           IF a = ip
                             THEN (IF created THEN {} ELSE @[ip])
                                  \cup (IF this.throttle THEN {}
                                        ELSE {attack_type})
                             ELSE @[a]]]
  /\ UNCHANGED <<now, callOthers>>

\* the awaited request of the call settles: reportAttack returns, or its catch
\* block stores the record and rethrows
RequestSettles(c, ok) ==
  /\ c \in 1..Len(calls.call)
  /\ calls.call[c].pc = "await"
  /\ calls.thread = 0
  /\ spool' = IF ok THEN spool
              ELSE storeAttackLocally(spool,
                     spoolEntry(c, calls.call[c].data, FALSE))
  /\ calls' = [calls EXCEPT !.call[c].pc = "done"]
  /\ UNCHANGED <<now, reportedIPCache, callOthers>>

----------------------------------------------------------------------------
(* Specifications *)

\* index.js at load: no heartbeat sent yet, the startup timer armed
HbIdle ==
  [consecutiveHeartbeatFailures |-> 0,
   lastHeartbeatSuccess |-> -1,      \* null
   startupTimer |-> TRUE,            \* setTimeout(performHeartbeat, 2000)
   retryTimers |-> 0,                \* armed debug-mode retry timers
   pending |-> [perform |-> 0, retry |-> 0, test |-> 0],
                                     \* sendHeartbeat calls awaiting the backend
   sent |-> 0,                       \* heartbeat requests sent
   pings |-> 0,                      \* ping probes performed
   lastSend |-> "none",              \* how the last completed send ended
   pingsInRun |-> 0,                 \* ping probes since the last success
   recovered |-> 0,                  \* failures the last scheduled success ended
   retriesInRun |-> 0]               \* retries scheduled since the failure
                                     \* counter was last zero

\* the state of the pipeline at process start
InitPipeline ==
  /\ now = 0 /\ ticks = 0
  /\ reportedIPCache = EmptyCache
  /\ spool = <<>>
  /\ inflight = {}
  /\ nEvents = 0
  /\ outcome = [id \in EventIds |-> "none"]
  /\ thrown = [id \in EventIds |-> "none"]
  /\ admitted = NoAdmissions
  /\ delivered = [id \in EventIds |-> 0]
  /\ passes = [p \in 1..MaxReplays |-> NoPass]
  /\ nReplays = 0 /\ nRestarts = 0
  /\ consecutiveReportFailures = 0
  /\ hb = HbIdle

\* the record of the HTTP listener's SQL injection report, not yet classified
IdleAdapter ==
  [pc |-> "input",
   attackData |-> [ip_address |-> "1.2.3.4", attack_type |-> "SQL_INJECTION",
                   evidence |-> ListenerEvidence],
   enhanced |-> <<>>, body |-> <<>>, stored |-> <<>>, replayBody |-> <<>>]

\* the web listeners at load: empty trackers, no request handled yet
IdleWeb ==
  [requests |-> 0, httpLogins |-> EmptyCache, httpsLogins |-> EmptyCache,
   suspiciousIPs |-> EmptyCache, last |-> <<>>]

\* the SSH listener at load: empty trackers, no client yet
IdleSsh ==
  [connections |-> 0, authentications |-> 0, connectionTracker |-> EmptyCache,
   authAttemptTracker |-> EmptyCache, sessions |-> EmptyCache,
   lastClosed |-> <<>>, last |-> <<>>,
   accepted |-> [ip \in SshSources |-> <<>>],
                         \* the last three accept times of the source
   rapid |-> [ip \in SshSources |->
                [n |-> 0, at |-> 0, previous |-> 0, recent |-> <<>>]]]
                         \* the source's rapid-connection reports: how many,
                         \* the last one's time, its predecessor's time and
                         \* the three most recent accepts when it was made

\* the mail listeners at load: no client yet
IdleMail ==
  [smtp |-> <<>>, pop3 |-> <<>>, smtpSessions |-> 0, pop3Sessions |-> 0,
   smtpCommands |-> 0, pop3Attempts |-> 0,
   bruteforce |-> [ip \in MailSources |->
                     [n |-> 0, at |-> 0, previous |-> 0, attempts |-> 0]]]
                         \* the source's pop3_bruteforce reports: how many,
                         \* the last one's time, its predecessor's time and
                         \* the attempt count it was made on

\* no reportAttack call made yet, nothing running
NoCalls ==
  [thread |-> 0,          \* the call that is running, 0 for none
   call |-> <<>>,         \* the calls made, in order
   since |-> [ip \in {} |-> {}]]
                          \* per cache entry, the kinds of the events
                          \* admitted since its timestamp

\* index.js before its first statement that starts a module
IdleSupervisor ==
  [next |-> 1, alive |-> TRUE, cron |-> 0,
   activeModules |-> [m \in {} |-> ""],
   listening |-> [m \in {} |-> ""],
   failed |-> {},        \* the modules whose start has failed so far
   env |-> [API_KEY |-> ""],  \* process.env; "" for an unset variable
   heartbeatInfo |-> [request |-> <<>>, response |-> <<>>, error |-> <<>>],
                         \* lastHeartbeatRequest, -Response and -Error of
                         \* api-service.js, <<>> for null
   answered |-> <<>>]    \* the last answer of a diagnostic route, with the
                         \* module list and heartbeat record it was made on

InitListeners ==
  /\ web = IdleWeb
  /\ ssh = IdleSsh
  /\ mail = IdleMail
  /\ mysql = [session |-> <<>>, sessions |-> 0, packets |-> 0]
  /\ calls = NoCalls
  /\ supervisor = IdleSupervisor

\* the state at process start, whatever the configuration
InitState ==
  /\ InitPipeline
  /\ adapter = IdleAdapter
  /\ InitListeners

\* the config object index.js builds has no storeThrottledAttacks field
ThrottleConfigs ==
  [offlineMode : BOOLEAN, storeThrottledAttacks : {FALSE},
   debugMode : {FALSE}, uniqueTypesOnly : BOOLEAN,
   envMaxReports : EnvMaxReports]

InitThrottle ==
  /\ config \in ThrottleConfigs
  /\ InitState

\* the throttle cache under the report sender and the clock
NextThrottle ==
  \/ \E ip \in IPs, k \in AttackKinds : ReportAttack(ip, k)
  \/ \E r \in inflight : ReportAccepted(r)
  \/ \E r \in inflight, e \in OneSendError : ReportRejected(r, e)
  \/ \E d \in ClockSteps : Tick(d)
  \/ CleanupReportCache

SpecThrottle == InitThrottle /\ [][NextThrottle]_vars

\* the deployment README.md documents: REPORT_UNIQUE_TYPES_ONLY=true and
\* MAX_REPORTS_PER_IP at its default
SpoolConfigs ==
  [offlineMode : BOOLEAN, storeThrottledAttacks : BOOLEAN,
   debugMode : {FALSE}, uniqueTypesOnly : {TRUE}, envMaxReports : {0}]

InitSpool ==
  /\ config \in SpoolConfigs
  /\ InitState

\* the report sender, the spool, its replay and restarts
Next ==
  \/ \E ip \in IPs, k \in AttackKinds : ReportAttack(ip, k)
  \/ \E r \in inflight : ReportAccepted(r)
  \/ \E r \in inflight, e \in OneSendError : ReportRejected(r, e)
  \/ UploadStoredAttacks
  \/ SyncJob
  \/ \E p \in DOMAIN passes : UploadAccepted(p)
  \/ \E p \in DOMAIN passes : UploadRejected(p)
  \/ Restart

Spec == InitSpool /\ [][Next]_vars

\* the report sender against a backend that fails in every way: online, with
\* the throttle settings of the documented deployment
SenderConfigs ==
  [offlineMode : {FALSE}, storeThrottledAttacks : {FALSE},
   debugMode : BOOLEAN, uniqueTypesOnly : BOOLEAN, envMaxReports : {0}]

InitSender ==
  /\ config \in SenderConfigs
  /\ InitState

NextSender ==
  \/ \E ip \in IPs, k \in AttackKinds : ReportAttack(ip, k)
  \/ \E r \in inflight : ReportAccepted(r)
  \/ \E r \in inflight, e \in SendErrors : ReportRejected(r, e)

SpecSender == InitSender /\ [][NextSender]_vars

\* one record of any kind and evidence through the adapter and the sender
AdapterConfigs ==
  [offlineMode : {FALSE}, storeThrottledAttacks : {FALSE},
   debugMode : {FALSE}, uniqueTypesOnly : {TRUE}, envMaxReports : {0}]

InitAdapter ==
  /\ config \in AdapterConfigs
  /\ InitPipeline
  /\ adapter \in AdapterInputs
  /\ InitListeners

NextAdapter ==
  \/ Classify
  \/ BuildRequest
  \/ StoreRecord
  \/ ReplayRecord

SpecAdapter == InitAdapter /\ [][NextAdapter]_vars

\* the web listeners under any request, with and without the debug routes
WebConfigs ==
  [offlineMode : {FALSE}, storeThrottledAttacks : {FALSE},
   debugMode : BOOLEAN, uniqueTypesOnly : {TRUE}, envMaxReports : {0}]

\* clock advances between requests: up to and past the login trackers' minute
WebClockSteps == {60000, 1}

InitWeb ==
  /\ config \in WebConfigs
  /\ InitState

NextWeb ==
  \/ \E req \in WebRequests : HttpRequest(req)
  \/ \E req \in WebRequests : HttpsRequest(req)
  \/ \E d \in WebClockSteps : Tick(d)

SpecWeb == InitWeb /\ [][NextWeb]_vars

\* the SSH and mail listeners in the documented deployment
InitListener ==
  /\ config \in AdapterConfigs
  /\ InitState

NextSsh ==
  \/ \E ip \in SshSources : SshAccept(ip)
  \/ \E s \in DOMAIN ssh.sessions, ctx \in SshCredentials :
        SshAuthentication(s, ctx)
  \/ \E s \in DOMAIN ssh.sessions : SshTimerFires(s)
  \/ \E s \in DOMAIN ssh.sessions, h \in {"end", "error"} : SshEnd(s, h)
  \/ SshCleanup
  \/ \E d \in SshClockSteps : Tick(d)

SpecSsh == InitListener /\ [][NextSsh]_vars

\* the SMTP server and its clients
NextSmtp ==
  \/ \E ip \in MailSources : SmtpConnect(ip)
  \/ \E cmd \in SmtpCommands : SmtpCommand(cmd)
  \/ SmtpClose
  \/ \E d \in MailClockSteps : Tick(d)

SpecSmtp == InitListener /\ [][NextSmtp]_vars

\* index.js from its load to the listening sockets
NextStartup ==
  \/ \E result \in StartOutcomes : StartModule(result)
  \/ \E m \in DOMAIN supervisor.listening, survives \in BOOLEAN :
        ListenCompletes(m, survives)
  \/ CronFires

SpecStartup == InitListener /\ [][NextStartup]_vars

\* a process in debug mode under any value of API_KEY, set or unset
InitDiagnostics ==
  /\ config \in WebConfigs
  /\ config.debugMode
  /\ InitPipeline
  /\ adapter = IdleAdapter
  /\ web = IdleWeb /\ ssh = IdleSsh /\ mail = IdleMail
  /\ mysql = [session |-> <<>>, sessions |-> 0, packets |-> 0]
  /\ calls = NoCalls
  /\ supervisor \in {[IdleSupervisor EXCEPT !.env = [API_KEY |-> k]] :
                        k \in ApiKeys \cup {""}}

\* the diagnostic routes beside the start of the modules and the heartbeats
NextDiagnostics ==
  \/ \E result \in StartOutcomes : StartModule(result)
  \/ \E answer \in BackendAnswers : HeartbeatRecorded(answer)
  \/ \E path \in {"/debug", "/api-diagnostics"}, answer \in BackendAnswers :
        DiagnosticRequest(path, answer)

SpecDiagnostics == InitDiagnostics /\ [][NextDiagnostics]_vars

\* an offline process, whose reports all go to the spool, and replay passes
\* started through the module's export, one after the other
InitReplay ==
  /\ config \in SpoolConfigs
  /\ config.offlineMode /\ ~config.storeThrottledAttacks
  /\ InitState

NextReplay ==
  \/ \E ip \in IPs, k \in AttackKinds : ReportAttack(ip, k)
  \/ (\A p \in DOMAIN passes : passes[p].pc = "idle") /\ UploadStoredAttacks
  \/ \E p \in DOMAIN passes : UploadAccepted(p)
  \/ \E p \in DOMAIN passes : UploadRejected(p)

SpecReplay == InitReplay /\ [][NextReplay]_vars

\* an SMTP client that authenticates, verifies addresses and sends mail
NextSmtpSession ==
  \/ \E ip \in MailSources : SmtpConnect(ip)
  \/ \E cmd \in {c \in SmtpCommands : c.verb = "VRFY"} : SmtpCommand(cmd)
  \/ SmtpAuth
  \/ SmtpAuthRejected
  \/ SmtpData
  \/ \E chunk \in DataChunks : SmtpDataInput(chunk)
  \/ SmtpClose

SpecSmtpSession == InitListener /\ [][NextSmtpSession]_vars

\* the MySQL server and its clients
NextSql ==
  \/ \E ip \in MailSources : SqlConnect(ip)
  \/ \E packet \in SqlPackets : SqlData(packet)
  \/ SqlReject
  \/ SqlClose
  \/ \E d \in MailClockSteps : Tick(d)

SpecSql == InitListener /\ [][NextSql]_vars

\* one record of any kind, evidence and frequency hint through
\* enhanceAttackData
InitSeverity ==
  /\ config \in AdapterConfigs
  /\ InitPipeline
  /\ adapter \in SeverityInputs
  /\ InitListeners

NextSeverity == Grade

SpecSeverity == InitSeverity /\ [][NextSeverity]_vars

\* reportAttack calls for one source whose statements interleave as the
\* event loop lets them, on a clock that advances by a millisecond, or by a
\* whole TTL while no call is running
InitCalls ==
  /\ config \in [offlineMode : {FALSE}, storeThrottledAttacks : {FALSE},
                  debugMode : {FALSE}, uniqueTypesOnly : BOOLEAN,
                  envMaxReports : {0}]
  /\ InitPipeline
  /\ adapter = IdleAdapter
  /\ InitListeners

NextCalls ==
  \/ \E k \in AttackKinds : CallReportAttack("1.2.3.4", k)
  \/ \E c \in EventIds : UpdateReportCache(c)
  \/ \E c \in EventIds, ok \in BOOLEAN : RequestSettles(c, ok)
  \/ \E d \in {1, IP_CACHE_TTL} : (calls.thread # 0 => d = 1) /\ Tick(d)

SpecCalls == InitCalls /\ [][NextCalls]_vars

\* the POP3 server and its clients
NextPop3 ==
  \/ \E ip \in MailSources : Pop3Connect(ip)
  \/ Pop3Pass
  \/ Pop3Reject
  \/ Pop3Close
  \/ \E d \in MailClockSteps : Tick(d)

SpecPop3 == InitListener /\ [][NextPop3]_vars

----------------------------------------------------------------------------
(* Heartbeat scheduler of index.js *)

apiVars == <<reportedIPCache, spool, inflight, nEvents, outcome, thrown, adapter,
            listenerVars,
             admitted,
             delivered, passes, nReplays, nRestarts,
             consecutiveReportFailures>>

\* sendHeartbeat up to its await: the request goes out
sendHeartbeat(h, origin) ==
  [h EXCEPT !.pending[origin] = @ + 1, !.sent = @ + 1]

\* performHeartbeat has no test of config.offlineMode
performHeartbeat(h) == sendHeartbeat(h, "perform")

\* the timer index.js arms at load fires
StartupHeartbeat ==
  /\ hb.startupTimer
  /\ hb.sent < MaxHeartbeats
  /\ hb' = [performHeartbeat(hb) EXCEPT !.startupTimer = FALSE]
  /\ UNCHANGED <<config, now, ticks>> /\ UNCHANGED apiVars

\* heartbeatJob, the every-minute cron job
CronHeartbeat ==
  /\ hb.sent < MaxHeartbeats
  /\ hb' = performHeartbeat(hb)
  /\ UNCHANGED <<config, now, ticks>> /\ UNCHANGED apiVars

\* mutation of performHeartbeatTry: lastHeartbeatSuccess is not written
performHeartbeatTry_NoStamp(h, t) ==
  [h EXCEPT !.consecutiveHeartbeatFailures = 0]

\* the assignments of performHeartbeat after the awaited send has resolved
performHeartbeatTry(h, t) ==
  [h EXCEPT !.lastHeartbeatSuccess = t,
            !.consecutiveHeartbeatFailures = 0]

\* the try branch of performHeartbeat
HeartbeatSucceeds ==
  /\ hb.pending.perform > 0
  /\ hb' = [performHeartbeatTry(hb, now) EXCEPT
             !.pending.perform = @ - 1,
             !.lastSend = "ok", !.pingsInRun = 0, !.retriesInRun = 0,
             !.recovered = hb.consecutiveHeartbeatFailures]
  /\ UNCHANGED <<config, now, ticks>> /\ UNCHANGED apiVars

\* mutation of pingProbeDue: the probe runs from the third failure on
pingProbeDue_FromThird(failures) == failures >= PING_PROBE_FAILURES

\* `if (consecutiveHeartbeatFailures === 3)` of performHeartbeat's catch
pingProbeDue(failures) == failures = PING_PROBE_FAILURES

\* mutation of retryDue: every failure in debug mode schedules a retry
retryDue_Unbounded(debugMode, failures) == debugMode

\* `config.debugMode && consecutiveHeartbeatFailures <=
\* config.heartbeatRetryCount` of performHeartbeat's catch
retryDue(debugMode, failures) ==
  debugMode /\ failures <= HEARTBEAT_RETRY_COUNT

\* the catch branch of performHeartbeat
HeartbeatFails ==
  /\ hb.pending.perform > 0
  /\ LET failures == hb.consecutiveHeartbeatFailures + 1
     IN hb' = [hb EXCEPT
          !.pending.perform = @ - 1,
          !.consecutiveHeartbeatFailures = failures,
          !.retryTimers = IF retryDue(config.debugMode, failures)
                            THEN @ + 1 ELSE @,
          !.retriesInRun = IF retryDue(config.debugMode, failures)
                             THEN @ + 1 ELSE @,
          !.pings = IF pingProbeDue(failures) THEN @ + 1 ELSE @,
          !.pingsInRun = IF pingProbeDue(failures) THEN @ + 1 ELSE @,
          !.lastSend = "failed"]
  /\ UNCHANGED <<config, now, ticks>> /\ UNCHANGED apiVars

\* a retry timer fires: sendHeartbeat again
RetryFires ==
  /\ hb.retryTimers > 0
  /\ hb.sent < MaxHeartbeats
  /\ hb' = [sendHeartbeat(hb, "retry") EXCEPT !.retryTimers = @ - 1]
  /\ UNCHANGED <<config, now, ticks>> /\ UNCHANGED apiVars

RetrySucceeds ==
  /\ hb.pending.retry > 0
  /\ hb' = [hb EXCEPT !.pending.retry = @ - 1,
                      !.lastHeartbeatSuccess = now,
                      !.consecutiveHeartbeatFailures = 0,
                      !.lastSend = "ok", !.pingsInRun = 0,
                      !.retriesInRun = 0]
  /\ UNCHANGED <<config, now, ticks>> /\ UNCHANGED apiVars

\* the retry's catch: a log line
RetryFails ==
  /\ hb.pending.retry > 0
  /\ hb' = [hb EXCEPT !.pending.retry = @ - 1, !.lastSend = "failed"]
  /\ UNCHANGED <<config, now, ticks>> /\ UNCHANGED apiVars

\* GET /test-heartbeat, a route of debug mode: sendHeartbeat, called directly
TestHeartbeat ==
  /\ config.debugMode
  /\ hb.sent < MaxHeartbeats
  /\ hb' = sendHeartbeat(hb, "test")
  /\ UNCHANGED <<config, now, ticks>> /\ UNCHANGED apiVars

\* the route answers 200 or 500; the counters are not touched
TestHeartbeatCompletes(ok) ==
  /\ hb.pending.test > 0
  /\ hb' = [hb EXCEPT !.pending.test = @ - 1,
                      !.lastSend = IF ok THEN "ok" ELSE "failed"]
  /\ UNCHANGED <<config, now, ticks>> /\ UNCHANGED apiVars

HeartbeatConfigs ==
  [offlineMode : BOOLEAN, storeThrottledAttacks : {FALSE},
   debugMode : BOOLEAN, uniqueTypesOnly : {FALSE}, envMaxReports : {0}]

InitHeartbeat ==
  /\ config \in HeartbeatConfigs
  /\ InitState

NextHeartbeat ==
  \/ StartupHeartbeat
  \/ CronHeartbeat
  \/ HeartbeatSucceeds
  \/ HeartbeatFails
  \/ RetryFires
  \/ RetrySucceeds
  \/ RetryFails
  \/ TestHeartbeat
  \/ \E ok \in BOOLEAN : TestHeartbeatCompletes(ok)
  \/ \E d \in ClockSteps : Tick(d)

SpecHeartbeat == InitHeartbeat /\ [][NextHeartbeat]_vars

----------------------------------------------------------------------------
(* Claims *)

spoolIds(file) == {file[j].id : j \in 1..Len(file)}

pendingEntriesOf(id) ==
  {j \in 1..Len(spool) : spool[j].id = id /\ spool[j].pending_upload}

\* C1: in the window of a source's cache entry, at most MAX_REPORTS_PER_IP
\* events of one canonical kind from that source are admitted (not answered
\* "throttled"), whatever other events arrive.
C1_AtMostMaxPerKind ==
  \A ip \in IPs, k \in CanonicalKinds : admitted[ip][k] <= maxReportsPerIp

\* the cap of 2 was reached for a kind and a further event was suppressed
C1_Witness ==
  /\ ~config.uniqueTypesOnly
  /\ maxReportsPerIp = 2
  /\ nEvents > 0 /\ outcome[nEvents] = "throttled"
  /\ \E ip \in IPs, k \in CanonicalKinds : admitted[ip][k] = 2

C3_FailedEventPendingOnce ==
  \A id \in 1..nEvents :
    (outcome[id] = "failed" /\ delivered[id] = 0)
      => Cardinality(pendingEntriesOf(id)) = 1

\* C4 (as claimed): when a replay pass finishes, every record a failing
\* report appended to the spool since the pass read it is still in the spool.
C4_AppendSurvivesPass ==
  [][\A p \in DOMAIN passes :
       (passes[p].pc = "running" /\ passes'[p].pc = "idle"
          /\ nRestarts' = nRestarts)
         => \A id \in spoolIds(spool) \ spoolIds(passes[p].attacks) :
              outcome[id] = "failed" => id \in spoolIds(spool')]_vars

\* C5 (as claimed): the backend accepts each event at most once, over the
\* report sender and all replay passes.
C5_DeliveredAtMostOnce ==
  \A id \in EventIds : delivered[id] <= 1

\* C6 (as claimed): a failed report leaves consecutiveReportFailures > 0,
\* the condition under which the periodic job replays the spool.
C6_FailureEnablesReplay ==
  [][\A id \in EventIds :
       (outcome[id] = "sending" /\ outcome'[id] = "failed")
         => consecutiveReportFailures' > 0]_vars

\* C7 (as claimed): the spool is empty after a process start.
C7_SpoolEmptyAfterStart ==
  [][nRestarts' = nRestarts + 1 => spool' = <<>>]_vars

\* C8 (as claimed): in offline mode no heartbeat request is sent.
C8_NoHeartbeatOffline ==
  config.offlineMode => hb.sent = 0

\* C9: in offline mode a reportAttack call that is not suppressed answers
\* "stored_locally", appends its record to the spool with pending_upload set
\* and sends no request.
C9_OfflineStoresLocally ==
  [][(config.offlineMode /\ nEvents' = nEvents + 1
        /\ outcome'[nEvents'] # "throttled")
       => /\ outcome'[nEvents'] = "stored_locally"
          /\ inflight' = {}
          /\ spool' = Append(spool, [id |-> nEvents',
                 ip_address |-> spool'[Len(spool')].ip_address,
                 attack_type |-> spool'[Len(spool')].attack_type,
                 evidence |-> ListenerEvidence, throttled |-> FALSE,
                 pending_upload |-> TRUE])]_vars

\* offline mode, two events stored, among them a second admitted kind
C9_Witness ==
  /\ config.offlineMode
  /\ Len(spool) = 2
  /\ outcome[2] = "stored_locally"
  /\ spool[1].attack_type # spool[2].attack_type

C11_FailureSpoolsAndThrows ==
  [][\A r \in inflight :
       (r \notin inflight' /\ outcome'[r.id] = "failed")
         => /\ spool' = Append(spool,
                 [id |-> r.id, ip_address |-> r.data.ip_address,
                  attack_type |-> r.data.attack_type,
                  evidence |-> r.data.evidence, throttled |-> FALSE,
                  pending_upload |-> TRUE])
            /\ thrown'[r.id] \in SendErrors]_vars

\* one report failed with a 403 and another with a timeout; both are spooled
C11_Witness ==
  \E a, b \in 1..nEvents :
    /\ thrown[a] = "403" /\ thrown[b] = "ECONNABORTED"
    /\ pendingEntriesOf(a) # {} /\ pendingEntriesOf(b) # {}

\* C12: with REPORT_UNIQUE_TYPES_ONLY set, an event from a source whose cache
\* entry is within its window and already holds the event's kind (the entry
\* counts one more event and gains no kind) is suppressed, whatever the count.
C12_SecondOfKindSuppressed ==
  [][\A ip \in DOMAIN reportedIPCache :
       (/\ config.uniqueTypesOnly
        /\ nEvents' = nEvents + 1
        /\ ~isExpired(reportedIPCache[ip], now)
        /\ ip \in DOMAIN reportedIPCache'
        /\ reportedIPCache'[ip].reported_count =
             reportedIPCache[ip].reported_count + 1
        /\ reportedIPCache'[ip].attack_types = reportedIPCache[ip].attack_types)
         => outcome'[nEvents'] = "throttled"]_vars

\* the second event of a kind arrives at the very end of the window, with
\* the count far below the cap of 5, and is suppressed
C12_Witness ==
  /\ config.uniqueTypesOnly /\ maxReportsPerIp = MAX_REPORTS_PER_IP_PER_HOUR
  /\ now = IP_CACHE_TTL
  /\ nEvents = 2 /\ outcome[2] = "throttled"
  /\ \E ip \in DOMAIN reportedIPCache :
       /\ reportedIPCache[ip].timestamp = 0
       /\ reportedIPCache[ip].reported_count = 2
       /\ Cardinality(reportedIPCache[ip].attack_types) = 1

C14_ZeroIffLastSendOk ==
  hb.lastSend # "none"
    => (hb.consecutiveHeartbeatFailures = 0 <=> hb.lastSend = "ok")

C16_OneProbePerRun ==
  hb.pingsInRun = IF hb.consecutiveHeartbeatFailures >= PING_PROBE_FAILURES
                    THEN 1 ELSE 0

\* four scheduled heartbeats in a row have failed and one probe was made
C16_Witness ==
  /\ hb.consecutiveHeartbeatFailures = 4
  /\ hb.pingsInRun = 1 /\ hb.pings = 1

\* C17: whatever the internal kind and the evidence, the attack_type of the
\* classified record is a kind of the taxonomy table, and its category and
\* base score are the ones the table gives for that kind.
C17_ClosedTaxonomy ==
  adapter.pc # "input"
    => LET e == adapter.enhanced[1]
       IN /\ e.attack_type \in DOMAIN ATTACK_PATTERNS
          /\ e.category = ATTACK_PATTERNS[e.attack_type].category
          /\ e.metadata.baseScore = ATTACK_PATTERNS[e.attack_type].baseScore

\* a label the mapping lacks was classified, to the default kind
C17_Witness ==
  /\ adapter.pc = "enhanced"
  /\ adapter.attackData.attack_type = "pop3_scan"
  /\ adapter.enhanced[1].attack_type = "HONEYPOT"
  /\ adapter.enhanced[1].category = "general"
  /\ adapter.enhanced[1].metadata.baseScore = 9

\* C18 (as claimed): the kind a replay pass transmits for a stored record is
\* the kind stored in the spool.
C18_ReplayKeepsKind ==
  adapter.pc = "replayed"
    => adapter.replayBody[1].attack_type = adapter.stored[1].attack_type

\* C19 (as claimed): the attack_type of a classified record differs from the
\* internal kind kept in metadata.original_type.
C19_OriginalKindNotReported ==
  adapter.pc # "input"
    => adapter.enhanced[1].attack_type
         # adapter.enhanced[1].metadata.original_type

\* an array all of whose elements are strings
isStringSequence(v) ==
  /\ v.t = "array"
  /\ \A j \in 1..Len(v.items) : v.items[j].t = "string"

C21_SystemPathsUnobserved ==
  \A j \in 1..Len(web.last) :
    web.last[j].req.path \in SYSTEM_ENDPOINTS => web.last[j].events = <<>>

\* C22: every diagnostic path is skipped by the honeypot's 404 handler, so in
\* debug mode a request to it with its route's method is answered by its
\* diagnostic handler (as claimed)
C22_DiagnosticsAnswered ==
  \A j \in 1..Len(web.last) :
    LET req == web.last[j].req IN
      (/\ req.listener = "http"
       /\ config.debugMode
       /\ [method |-> req.method, path |-> req.path] \in DiagnosticRoutes
       /\ req.path # "/debug")
        => web.last[j].response = [status |-> 200, by |-> req.path]

\* the SSH sessions that are open or whose timer is unsettled, and the last
\* one that is over
sshSessionRecords ==
  {ssh.sessions[s] : s \in DOMAIN ssh.sessions}
    \cup {ssh.lastClosed[j] : j \in 1..Len(ssh.lastClosed)}

\* C23: every authentication attempt is rejected whatever the credentials; no
\* SSH session ever becomes authenticated by presenting credentials (as
\* claimed, on the SSH listener)
C23_NoSessionAuthenticated == \A c \in sshSessionRecords : ~c.ready

\* C24: in an SSH session the port-scan timer is cancelled by the first
\* authentication attempt and by the end of the session, and no PORT_SCAN
\* observation is made for a session after an authentication attempt or after
\* its end
C24_TimerCancelled ==
  /\ \A s \in DOMAIN ssh.sessions :
       (ssh.sessions[s].hasAuthenticated \/ ssh.sessions[s].ended)
          => ssh.sessions[s].timer # "armed"
  /\ \A c \in sshSessionRecords : c.lateScans = 0

\* a session closed without authentication and a later one with an
\* authentication attempt, both past the timer's delay, neither reported as
\* a port scan
C24_Witness ==
  /\ ssh.lastClosed # <<>>
  /\ ~ssh.lastClosed[1].hasAuthenticated
  /\ ssh.lastClosed[1].timer = "cleared"
  /\ ssh.lastClosed[1].portScans = 0
  /\ \E s \in DOMAIN ssh.sessions :
       /\ ssh.sessions[s].hasAuthenticated
       /\ ssh.sessions[s].timer = "cleared"
       /\ Date_now - ssh.sessions[s].acceptedAt >= PORT_SCAN_TIMEOUT
       /\ ssh.sessions[s].portScans = 0

\* C25: every SSH connection closed without any authentication attempt has
\* produced one PORT_SCAN observation, also when it is closed less than 5
\* seconds after accept (as claimed)
C25_UnauthenticatedCloseScanned ==
  \A j \in 1..Len(ssh.lastClosed) :
    ~ssh.lastClosed[j].hasAuthenticated => ssh.lastClosed[j].portScans = 1

\* C26: the observation of the SSH rapid-connection rule is classified as
\* canonical kind ssh_bruteforce and admitted as such (as claimed)
C26_RapidIsSshBruteforce ==
  \A j \in 1..Len(ssh.last) :
    \A k \in 1..Len(ssh.last[j].reports) :
      ssh.last[j].reports[k].rule = "rapid"
        => /\ ssh.last[j].reports[k].attack_type = "SSH_BRUTEFORCE"
           /\ ~ssh.last[j].reports[k].throttled

\* C28: a rapid-connection report for a source is made on an accept only when
\* at least 3 accepts of that source lie within the last 60 s, and two
\* rapid-connection reports for one source are at least 120 s apart, over any
\* sequence of accepts and cleanup sweeps
C28_RapidRule ==
  \A ip \in SshSources :
    LET r == ssh.rapid[ip] IN
      /\ r.n >= 1 =>
            /\ Len(r.recent) = 3
            /\ \A j \in 1..3 : r.recent[j] >= r.at - RAPID_WINDOW
            /\ r.recent[3] = r.at
      /\ r.n >= 2 => r.at - r.previous >= RAPID_REPORT_GAP

\* a source's second rapid-connection report
C28_Witness ==
  \E ip \in SshSources :
    /\ ssh.rapid[ip].n = 2
    /\ ssh.rapid[ip].at - ssh.rapid[ip].previous = 2 * (RAPID_WINDOW + 1)

\* C27: on every listener a bruteforce event of a source is emitted only on
\* a tracked attempt count of at least 3 and at least 60 s after the source's
\* previous bruteforce event; here for the POP3 listener
C27_BruteforceRule ==
  \A ip \in MailSources :
    LET b == mail.bruteforce[ip]
    IN /\ b.n >= 1 => b.attempts >= 3
       /\ b.n >= 2 => b.at - b.previous >= 60000

\* C29: an SMTP session emits email_harvesting only at its close and at most
\* once, and only when it holds more than 10 RCPT TO or more than 5 VRFY/EXPN
C29_HarvestingAtCloseOnce ==
  \A j \in 1..Len(mail.smtp) :
    LET session == mail.smtp[j]
    IN /\ session.harvestingOpen = 0
       /\ session.harvesting <= 1
       /\ session.harvesting = 1 =>
            session.received.rcpt > 10 \/ session.vrfyCount > 5

\* C30: a closed SMTP session that received more than 5 RCPT TO across more
\* than 3 domains has emitted exactly one smtp_relay_attempt, at its close,
\* classified as mail_spam, whatever its commands were, RSET included
C30_RelayAttemptAtClose ==
  \A j \in 1..Len(mail.smtp) :
    LET session == mail.smtp[j]
    IN /\ ~session.closed => session.relays = 0
       /\ (session.closed /\ session.received.rcpt > 5
             /\ Cardinality(session.received.domains) > 3) =>
            session.relays = 1 /\ session.relayKind = "MAIL_SPAM"

\* C31: a module whose start has failed, by a throwing setup or by a failed
\* bind, has status "error", and the process is still running
C31_StartFailureContained ==
  \A m \in supervisor.failed :
    /\ supervisor.alive
    /\ m \in DOMAIN supervisor.activeModules
    /\ supervisor.activeModules[m] = "error"

\* C32: what a diagnostic route has answered is what it would have answered
\* in the same state of a process configured with any other API key
C32_DiagnosticsIgnoreApiKey ==
  \A j \in 1..Len(supervisor.answered), k \in ApiKeys :
    LET a == supervisor.answered[j]
    IN a.body = diagnosticBody(
                  a.path,
                  [activeModules |-> a.modules,
                   heartbeatInfo |-> a.heartbeatInfo],
                  [API_KEY |-> k], a.answer)

\* C33: a replay pass that ends with the file as it read it writes exactly
\* the entries whose upload failed during it, in the order they had in the
\* file, and returns the numbers of its successes and failures
C33_ReplayKeepsFailures ==
  [][\A p \in DOMAIN passes, ok \in BOOLEAN :
       (PassStep(p, ok) /\ passes'[p].pc = "idle" /\ spool = passes[p].read)
         => LET read == passes[p].read
                after == passAfter(passes[p], ok)
                result == passResult(after)
            IN /\ spool' = after.remainingAttacks
               /\ spool' = SelectSeq(read,
                     LAMBDA a : \E j \in 1..Len(spool') : spool'[j] = a)
               /\ result.remaining = Len(spool')
               /\ result.uploaded = Len(pendingOnly(read)) - Len(spool')]_vars

\* a pass over three entries has ended: the second was uploaded, the first
\* and the third failed and are the file, in that order
C33_Witness ==
  /\ nEvents = 3 /\ nReplays = 1
  /\ \A p \in DOMAIN passes : passes[p].pc = "idle"
  /\ delivered[1] = 0 /\ delivered[2] = 1 /\ delivered[3] = 0
  /\ Len(spool) = 2 /\ spool[1].id = 1 /\ spool[2].id = 3

\* C34: a failed scheduled heartbeat arms one retry timer when debug mode is
\* on and the incremented failure counter is at most HEARTBEAT_RETRY_COUNT,
\* and none otherwise; a failed retry changes neither the failure counter
\* nor the armed timers; between two zeros of the failure counter at most
\* HEARTBEAT_RETRY_COUNT retries are scheduled
C34_RetryRule ==
  [][/\ HeartbeatFails =>
          hb'.retryTimers = hb.retryTimers +
            (IF config.debugMode /\ hb'.consecutiveHeartbeatFailures
                                     <= HEARTBEAT_RETRY_COUNT
               THEN 1 ELSE 0)
     /\ RetryFails =>
          /\ hb'.consecutiveHeartbeatFailures = hb.consecutiveHeartbeatFailures
          /\ hb'.retryTimers = hb.retryTimers
     /\ hb'.retriesInRun <= HEARTBEAT_RETRY_COUNT]_vars

\* a fourth scheduled heartbeat in a row has failed in debug mode after three
\* retries were scheduled, one of which has failed
C34_Witness ==
  /\ config.debugMode
  /\ hb.consecutiveHeartbeatFailures = HEARTBEAT_RETRY_COUNT + 1
  /\ hb.retriesInRun = HEARTBEAT_RETRY_COUNT
  /\ hb.retryTimers = HEARTBEAT_RETRY_COUNT - 1
  /\ hb.pending.retry = 0
  /\ hb.lastSend = "failed"

\* C35: within one SMTP session no event is emitted after an event that a
\* later input, or the close, has triggered
C35_EventsInSessionOrder ==
  \A j \in 1..Len(mail.smtp) : ~mail.smtp[j].disorder

\* C36: an SMTP session in DATA mode that has been sent the end-of-data
\* marker has left DATA mode, run the spam heuristic and accepted the message
C36_EndMarkerLeavesDataMode ==
  [][\A chunk \in DataChunks :
       (SmtpDataInput(chunk)
          /\ endsWith(chunk, <<"CR", "LF", ".", "CR", "LF">>))
         => /\ ~mail'.smtp[1].inDataMode
            /\ mail'.smtp[1].spamChecks = mail.smtp[1].spamChecks + 1
            /\ mail'.smtp[1].accepted = mail.smtp[1].accepted + 1]_vars

C38_SeverityOneAboveBase ==
  adapter.pc = "graded" =>
    /\ adapter.severity \in 1..5
    /\ adapter.severity =
         IF muchEvidence(adapter.attackData) \/ frequent(adapter.attackData)
           THEN Math_min(5, baseSeverity(adapter.standardizedType) + 1)
           ELSE baseSeverity(adapter.standardizedType)

\* C38, amended: the severity of a record is an integer in 1..5; it is the
\* base severity of the canonical kind plus one for evidence of more than 3
\* entries and plus one for a frequency hint above 10, capped at 5: plus two
\* when both hold
C38_SeverityAdjustedTwice ==
  adapter.pc = "graded" =>
    LET base == baseSeverity(adapter.standardizedType)
        steps == (IF muchEvidence(adapter.attackData) THEN 1 ELSE 0)
                 + (IF frequent(adapter.attackData) THEN 1 ELSE 0)
    IN /\ adapter.severity \in 1..5
       /\ adapter.severity = Math_min(5, base + steps)

\* a port scan with four entries of evidence and a frequency hint of 11 has
\* severity 4, two above its base
C38_Witness ==
  /\ adapter.pc = "graded"
  /\ adapter.standardizedType = "PORT_SCAN"
  /\ muchEvidence(adapter.attackData) /\ frequent(adapter.attackData)
  /\ adapter.severity = 4

\* C39: no other reportAttack call runs between the throttle decision and
\* the cache update of a call; with REPORT_UNIQUE_TYPES_ONLY set and no
\* entry old enough to expire, of the calls for one source and kind that
\* have decided, the calls in flight included, exactly one was admitted
C39_DecisionAndUpdateAtomic ==
  /\ \A c \in 1..Len(calls.call) :
       calls.call[c].pc = "update" => calls.thread = c
  /\ config.uniqueTypesOnly /\ now <= IP_CACHE_TTL =>
       \A a \in 1..Len(calls.call) :
         Cardinality({b \in 1..Len(calls.call) :
                        /\ calls.call[b].ip = calls.call[a].ip
                        /\ calls.call[b].data.attack_type
                             = calls.call[a].data.attack_type
                        /\ ~calls.call[b].throttle}) = 1

\* a second call for the same source and kind was made and suppressed while
\* the request of the first, made on an empty cache, was in flight
C39_Witness ==
  /\ config.uniqueTypesOnly
  /\ Len(calls.call) >= 2
  /\ calls.call[1].ip = calls.call[2].ip
  /\ calls.call[1].data.attack_type = calls.call[2].data.attack_type
  /\ 1 \in calls.call[2].inFlight
  /\ ~calls.call[1].throttle /\ calls.call[2].throttle
  /\ calls.call[2].pc = "done"

\* C40: each kind in the attack_types of a live throttle entry is the kind
\* of an event admitted since the entry's timestamp; a suppressed event
\* creates or resets no entry and adds no kind, also when the entry expires
\* between its throttle decision and its cache update
C40_EntryKindsWereAdmitted ==
  \A ip \in DOMAIN reportedIPCache :
    reportedIPCache[ip].attack_types \subseteq calls.since[ip]

====
